---- MODULE Spec2Model ----
(***************************************************************************)
(* Obsync server synchronization core: the op log (op_log table), the      *)
(* push and pull handlers, the sync cursors and the realtime bus, as a     *)
(* state machine.                                                          *)
(*                                                                         *)
(* Granularity. Every `await pool.query(...)` of a handler is a statement  *)
(* executed by PostgreSQL on a pooled connection in autocommit mode; the   *)
(* JavaScript that follows the await runs later, as one uninterrupted      *)
(* event-loop turn of the single server process. A statement that only     *)
(* reads is one atomic step. The INSERT into op_log is two steps: the      *)
(* statement draws its seq from the BIGSERIAL sequence and writes the row  *)
(* (DbInsert), and the row becomes visible to other statements when the    *)
(* implicit transaction commits (DbCommit). The continuation of the        *)
(* handler (PushInserted, PushCoalesced) is a third step, taken when the   *)
(* event loop delivers the statement's result.                             *)
(***************************************************************************)
EXTENDS Integers, Sequences, FiniteSets, TLC

(***************************************************************************)
(* Bounds of the model.                                                    *)
(***************************************************************************)
\* values the BIGSERIAL sequence op_log.seq may hand out: 1..MaxSeq
MaxSeq == 4
\* push handlers that may be in flight at the same time
NumHandlers == 2
\* pull handlers that may be in flight at the same time
NumPullers == 1
\* realtime connections
NumConns == 1
\* `since` values a pull or a subscription is opened with: 0..MaxSince
MaxSince == 2
\* keepalive envelopes the interval timer of a connection may send
MaxKeepalive == 1
\* blob handlers that may be in flight at the same time
NumBlobHandlers == 2
\* values of now() the commits of blobs take: 1..MaxClock
MaxClock == 2
\* requests that may be in the access checks at the same time
NumGates == 1

Handlers == 1..NumHandlers
Pullers == 1..NumPullers
Conns == 1..NumConns
Vaults == {"v1", "v2"}
Devices == {"d1", "d2"}
NoDevice == "none"
NoLimit == -1
\* query.deviceId values of a pull: absent, or a device
PullDevices == {NoDevice, "d2"}
\* query.limit values of a pull: absent, or a number
Limits == {NoLimit, 1, 1001}

(***************************************************************************)
(* Program constants.                                                      *)
(***************************************************************************)
DefaultPullLimit == 200
MaxPullLimit == 1000
BacklogLimit == 500

(***************************************************************************)
(* Push request bodies (SyncBatchPushRequestSchema): deviceId, cursor and  *)
(* a non-empty list of ops. Only the fields of an op the handler reads are *)
(* kept.                                                                   *)
(***************************************************************************)
SyncOp(k, t, p, d) == [idempotencyKey |-> k, opType |-> t, payload |-> p, deviceId |-> d]

Batches ==
  { [deviceId |-> "d1", cursor |-> 0,
     ops |-> << SyncOp("k1", "md_update", "p1", "d1"), SyncOp("k2", "file_create", "p2", "d1") >>],
    [deviceId |-> "d2", cursor |-> 0,
     ops |-> << SyncOp("k3", "md_update", "p1", "d2") >>] }

\* the same request bodies with every cursor a device may send: cursor is any
\* non-negative integer (z.number().int().nonnegative().default(0))
MaxCursor == 2
CursorBatches == { [b EXCEPT !.cursor = c] : b \in Batches, c \in 0..MaxCursor }

\* request bodies with blob_ref ops; payload is a record of any fields
\* (z.record(z.any())): a blob_ref that names blob h1, one whose payload has no
\* blobHash, and an op of another type
RefBatches ==
  { [deviceId |-> "d1", cursor |-> 0,
     ops |-> << SyncOp("k4", "blob_ref", [blobHash |-> "h1", index |-> 1], "d1"),
                SyncOp("k5", "md_update", [content |-> "c1"], "d1") >>],
    [deviceId |-> "d2", cursor |-> 0,
     ops |-> << SyncOp("k6", "blob_ref", [index |-> 1], "d2") >>] }

VARIABLES
  op_log,        \* committed rows of table op_log (visible to every statement)
  pending,       \* pending[h]: the row handler h's INSERT has written but not yet committed
  nextSeq,       \* next value of the BIGSERIAL sequence behind op_log.seq
  sync_cursors,  \* sync_cursors[<<device, vault>>] = last_applied_seq, or NoCursor
  handler,       \* handler[h]: the locals and the position of push handler h
  puller,        \* puller[p]: the locals and the position of pull handler p
  conn,          \* conn[c]: realtime connection c (socket state, what was sent on it)
  listeners,     \* listeners[v]: connections whose listener is registered on topic vault:v
  observedMax,   \* history: observedMax[v] = highest seq of v any reader has returned
  firstAck,      \* history: firstAck[<<v, b>>] = acknowledgedSeq of the first completed push of b to v
  pushHist,      \* history: pushHist[h] = what held when push handler h started
  blobs,         \* table blobs: blobs[hash] = the row, or NoBlob
  blob_chunks,   \* table blob_chunks: blob_chunks[<<blob_hash, idx>>] = the row, or NoChunk
  files,         \* LocalBlobStore: files[storageKey] = the bytes of the file, or NoFile
  clock,         \* the value now() returns
  blobReq,       \* blobReq[r]: the request, the locals and the position of blob handler r
  lastPut,       \* history: lastPut[<<hash, idx>>] = bytes and chunkHash of the last put-chunk
                 \* answered with persisted: true, NoPut once another put-chunk of the key starts
  getClean,      \* history: getClean[r]: get-chunk handler r started after a put-chunk of its
                 \* key was answered, and no put-chunk of the key has started since
  vaults,        \* table vaults: vaults[id] = owner_user_id, or NoVault
  gate,          \* gate[g]: a request in the access checks that open every vault route
  loop,          \* the headless client's pull loop: its position, state.cursor, what it applied
  loopLog,       \* history: the op log when the loop sent its last pull
  engine,        \* the plugin's SyncEngine in pullOnce: the stored cursor, the response, the
                 \* op the loop is at, the callbacks invoked
  chunking,      \* a caller of chunkBuffer and joinChunks: the arguments and the results
  builder,       \* a SyncOpBuilder: its logicalClock and the ops fromVaultEvent returned
  pushBase,      \* history: pushBase[h] = the op log and the device cursor when push handler
                 \* h started
  plugin,        \* the plugin's SyncStateStore (outbox, cursor) and what the SyncEngine built
                 \* and applied
  flush,         \* flush[f]: a call of SyncEngine.flushOutbox: its position, pending, response
  upload,        \* the binary branch of SyncEngine.buildOperation: its position, the
                 \* missing set, the loop index, and its calls so far
  obsync,        \* the ObsyncPlugin object: its fields, the timers of the window, the
                 \* sockets its engines opened, its connectAndStart calls in flight
  worker         \* the headless worker: its state (cursor, logicalClock), its mirror, and
                 \* the position of its main loop

\* the state of the program
prog == << op_log, pending, nextSeq, sync_cursors, handler, puller, conn, listeners >>
\* history variables: written by the Record... formulas only, read by no action
hist == << observedMax, firstAck, pushHist >>
\* the state of the blob routes, and their history variables
blobProg == << blobs, blob_chunks, files, clock, blobReq >>
blobHist == << lastPut, getClean >>
\* the vaults and the requests that are in the access checks
gateProg == << vaults, gate >>
\* the state of the clients, with their history variables
loopProg == << loop, loopLog >>
engineProg == << engine >>
chunkProg == << chunking >>
builderProg == << builder >>
\* history of the push handlers that is kept for the failing pushes
baseHist == << pushBase >>
pluginProg == << plugin, flush >>
uploadProg == << upload >>
mainProg == << obsync >>
workerProg == << worker >>
cliProg == << loopProg, engineProg, chunkProg, builderProg, baseHist, pluginProg, uploadProg, mainProg, workerProg >>
vars == << prog, hist, blobProg, blobHist, gateProg, cliProg >>

NoRow == [seq |-> 0]
NoCursor == -1
NoAck == -1

Max(a, b) == IF a >= b THEN a ELSE b
Min(a, b) == IF a <= b THEN a ELSE b

\* A push handler: vaultId, requestBody, the index of the op the loop is at, the
\* seq the INSERT returned (0: no row), the seq of the op, acknowledgedSeq,
\* appliedCount, missingChunks.
IdleHandler ==
  [pc |-> "idle", vaultId |-> "v1", body |-> CHOOSE b \in Batches : TRUE,
   idx |-> 0, ret |-> 0, seq |-> 0, acknowledgedSeq |-> 0, appliedCount |-> 0,
   missingChunks |-> << >>]

\* History of a push handler: the acknowledgedSeq of the first completed push of
\* the same body to the same vault (NoAck: there was none), the latest seq of the
\* vault when the handler started, and whether no other push to the vault ran
\* while it ran.
NoPushHist == [prevAck |-> NoAck, prevLatest |-> 0, alone |-> TRUE]

\* What a push handler found when it started: the op log and the cursor of its
\* device in its vault.
NoBase == [op_log |-> {}, cursor |-> NoCursor]

\* A pull handler: vaultId, query.since, query.limit, query.deviceId, the ops and the watermark.
IdlePuller ==
  [pc |-> "idle", vaultId |-> "v1", since |-> 0, limit |-> 0, deviceId |-> NoDevice,
   ops |-> << >>, watermark |-> 0]

\* A realtime connection: the position of its handler, vaultId, since, the socket's
\* readyState, the rows of the backlog query, the envelopes passed to socket.send
\* while the socket was open, whether the keepalive interval is set, and whether
\* the peer has stopped reading (what is sent then stays in the socket's buffer).
NewConn ==
  [pc |-> "new", vaultId |-> "v1", since |-> 0, readyState |-> 0, backlog |-> << >>, sent |-> << >>,
   keepalive |-> FALSE, stalled |-> FALSE, auth |-> [userId |-> "none", scopes |-> {}]]

\* rows of vault v in a set of rows
RowsOf(rows, v) == { r \in rows : r.vault_id = v }

\* latest seq of vault v (0 when the vault has no op)
LatestSeq(rows, v) ==
  IF RowsOf(rows, v) = {} THEN 0
  ELSE CHOOSE s \in { r.seq : r \in RowsOf(rows, v) } : \A r \in RowsOf(rows, v) : r.seq <= s

\* ORDER BY seq ASC
RECURSIVE OrderBySeq(_)
OrderBySeq(rows) ==
  IF rows = {} THEN << >>
  ELSE LET first == CHOOSE r \in rows : \A q \in rows : r.seq <= q.seq
       IN  << first >> \o OrderBySeq(rows \ {first})

\* LIMIT n
LimitRows(s, n) == SubSeq(s, 1, Min(n, Len(s)))

\* variant: seq >= $2
SelectOpsFrom(rows, v, since, n) ==
  LimitRows(OrderBySeq({ r \in RowsOf(rows, v) : r.seq >= since }), n)

\* SELECT ... FROM op_log WHERE vault_id = $1 AND seq > $2 ORDER BY seq ASC LIMIT $3
SelectOpsSince(rows, v, since, n) ==
  LimitRows(OrderBySeq({ r \in RowsOf(rows, v) : r.seq > since }), n)

\* const limit = Math.min(Number(query.limit ?? "200"), 1000)
PullLimit(q) == Min(IF q = NoLimit THEN DefaultPullLimit ELSE q, MaxPullLimit)

\* ops.map(...) of the pull response
PullOp(r) == [seq |-> r.seq, vaultId |-> r.vault_id, opType |-> r.op_type, payload |-> r.payload]

\* backlog.map(...) of the realtime backlog envelope
BacklogEvent(r) == [seq |-> r.seq, opType |-> r.op_type, payload |-> r.payload]

MapSeq(F(_), s) == [i \in 1..Len(s) |-> F(s[i])]

(***************************************************************************)
(* Blob routes: the values of the requests and the rows of the tables.     *)
(***************************************************************************)
BlobHandlers == 1..NumBlobHandlers
Hashes == {"h1"}
\* :index of the URL, a string
IndexParams == {"0", "1"}
\* Number(index)
NumberOf(str) == IF str = "0" THEN 0 ELSE 1
Indices == { NumberOf(str) : str \in IndexParams }
ChunkKeys == Hashes \X Indices
\* chunk bytes, and body.cipherTextBase64 values
Bytes == {"b1", "b2"}
Base64Encode(b) == IF b = "b1" THEN "YjE=" ELSE "YjI="
Base64Texts == { Base64Encode(b) : b \in Bytes }
\* Buffer.from(text, "base64")
Base64Decode(t) == CHOOSE b \in Bytes : Base64Encode(b) = t
\* sha256Hex(raw)
sha256Hex(b) == IF b = "b1" THEN "sha-b1" ELSE "sha-b2"
ChunkHashes == { sha256Hex(b) : b \in Bytes }
\* body.size of a put-chunk: absent or 0 (falsy), or the size
ChunkSizes == {0, 1}
\* chunkCount of an init
ChunkCounts == {1, 2}
\* size of an init
BlobSize == 2
\* body.hash of a commit: the hash of the URL or another one
CommitHashes == Hashes \cup {"h2"}
ExpectedCounts == {1, 2}
ExpectedSizes == {1, 2}

NoBlob == [chunk_count |-> 0]
NoChunk == [size |-> 0]
NoFile == "none"
NoPut == [bytes |-> "none"]
\* committed_at IS NULL
Null == 0

\* LocalBlobStore.writeChunk: join(rootDir, "blobs", blobHash, `${index}.bin`)
StorageKey(h, i) == << h, i >>

\* A blob handler: the route, the request (URL parameters and body), the rows its
\* queries returned, and the response.
IdleBlobReq == [pc |-> "idle", kind |-> "none", req |-> << >>, row |-> << >>, res |-> [code |-> "none"]]

(***************************************************************************)
(* Access checks: principals, scopes, vault owners.                        *)
(***************************************************************************)
Gates == 1..NumGates
Users == {"u1", "u2"}
\* ScopeSchema
Scopes == {"read", "write", "admin"}
\* AuthContext.scopes: a JWT carries all three, an API key the scopes it was created with
ScopeSets == { {"read"}, {"write"}, {"admin"}, {"read", "write"}, Scopes }
AuthContexts == [userId : Users, scopes : ScopeSets]
NoVault == "none"
\* the vault routes of the core
Operations == {"push", "pull", "realtime", "init", "putChunk", "getManifest", "getChunk", "commit"}
\* the scope each route passes to requireScope
RouteScope(op) == IF op \in {"push", "init", "putChunk", "commit"} THEN "write" ELSE "read"

\* variant: any scope opens every route
requireScopeAny(requested, scopes) == scopes # {}

\* requireScope(requested, scopes)
requireScope(requested, scopes) == "admin" \in scopes \/ requested \in scopes

\* assertVaultAccess(vaultId, userId): SELECT owner_user_id FROM vaults WHERE id = $1
assertVaultAccess(vaultId, userId) == vaults[vaultId] # NoVault /\ vaults[vaultId] = userId

\* A request in the access checks: the route, request.authContext, params.vaultId
\* and the error response.
IdleGate == [pc |-> "idle", op |-> "none", auth |-> [userId |-> "none", scopes |-> {}],
             vaultId |-> "v1", res |-> [code |-> "none"]]

\* The pull loop of the headless client (pullAndApplyUntilIdle): the vault, the
\* cursor it started from, state.cursor, the limit of its pulls, and the seqs of
\* the ops it applied, in the order it applied them.
IdleLoop == [pc |-> "idle", vaultId |-> "v1", start |-> 0, cursor |-> 0, limit |-> NoLimit,
             applied |-> << >>]

(***************************************************************************)
(* The plugin's SyncEngine: pull responses and the callbacks of the ops.   *)
(***************************************************************************)
\* OpTypeSchema
OpTypes == {"md_update", "file_create", "file_rename", "file_delete", "blob_ref", "key_rotate"}
\* the fields of a payload that applyRemoteOp reads and requires to be non-empty
PayloadFields == {"path", "yUpdateBase64", "oldPath", "blobHash", "ivBase64", "authTagBase64"}
\* payloads of the ops of a response, as the set of their non-empty fields
Payloads == {PayloadFields, PayloadFields \ {"path"}}
\* ops a pull response may hold: at most MaxOps
MaxOps == 2

\* applyRemoteOp: the branch of each opType returns early unless these fields are non-empty
RequiredFields(opType) ==
  CASE opType = "md_update" -> {"path", "yUpdateBase64"}
    [] opType = "file_create" -> {"path"}
    [] opType = "file_rename" -> {"oldPath", "path"}
    [] opType = "file_delete" -> {"path"}
    [] opType = "blob_ref" -> {"path", "blobHash", "ivBase64", "authTagBase64"}
    [] OTHER -> {}

\* applyRemoteOp: the callback the branch of each opType invokes; no branch for key_rotate
CallbackOf(opType) ==
  CASE opType = "md_update" -> "onRemoteMarkdown"
    [] opType = "file_create" -> "onRemoteFileCreate"
    [] opType = "file_rename" -> "onRemoteFileRename"
    [] opType = "file_delete" -> "onRemoteFileDelete"
    [] opType = "blob_ref" -> "onRemoteBinaryFile"
    [] OTHER -> "none"

\* applyRemoteOp(opType, payload): the callback it invokes, "none" when it returns
\* without invoking one
applyRemoteOp(opType, payload) ==
  IF CallbackOf(opType) # "none" /\ RequiredFields(opType) \subseteq payload
  THEN CallbackOf(opType) ELSE "none"

\* the responses of transport.pull(vaultId, since, deviceId): ops with ascending
\* seqs above since, the watermark the seq of the last op (since when there is none)
PullResponses(since) ==
  { [watermark |-> since + n,
     ops |-> [i \in 1..n |-> [seq |-> since + i, opType |-> ts[i], payload |-> ps[i]]]] :
       <<n, ts, ps>> \in UNION { {n} \X [1..n -> OpTypes] \X [1..n -> Payloads] : n \in 0..MaxOps } }

\* SyncEngine in pullOnce: stateStore's cursor of the vault, since, the response,
\* the index of the op the loop is at, and the callbacks invoked with the seq of
\* their op, in the order of the invocations.
IdleEngine == [pc |-> "idle", cursor |-> 0, since |-> 0, response |-> [watermark |-> 0, ops |-> << >>],
               idx |-> 0, calls |-> << >>]

(***************************************************************************)
(* Chunking (shared library): chunkBuffer and joinChunks.                  *)
(***************************************************************************)
\* buffers of at most MaxBufferLen bytes
MaxBufferLen == 3
ByteValues == {0, 255}
Buffers == UNION { [1..n -> ByteValues] : n \in 0..MaxBufferLen }
\* chunkSizeBytes arguments: negative, zero, and sizes up to above the longest buffer
ChunkSizeArgs == (0 - 1)..(MaxBufferLen + 1)

\* createHash("sha256").update(data).digest("hex")
DataHash(data) == << "sha256", data >>

\* buffer.subarray(start, end)
Subarray(buffer, start, end) == SubSeq(buffer, start + 1, end)

\* the loop of chunkBuffer from (offset, index) on
RECURSIVE ChunkLoop(_, _, _, _)
ChunkLoop(buffer, chunkSizeBytes, offset, index) ==
  IF offset < Len(buffer)
  THEN LET data == Subarray(buffer, offset, Min(offset + chunkSizeBytes, Len(buffer)))
       IN  << [index |-> index, data |-> data, hash |-> DataHash(data)] >>
           \o ChunkLoop(buffer, chunkSizeBytes, offset + chunkSizeBytes, index + 1)
  ELSE << >>

\* chunkBuffer(buffer, chunkSizeBytes), for chunkSizeBytes > 0
chunkBuffer(buffer, chunkSizeBytes) == ChunkLoop(buffer, chunkSizeBytes, 0, 0)

\* [...chunks].sort((a, b) => a.index - b.index)
RECURSIVE SortByIndex(_)
SortByIndex(chunks) ==
  IF Len(chunks) = 0 THEN << >>
  ELSE LET m == CHOOSE i \in 1..Len(chunks) :
                  /\ \A j \in 1..Len(chunks) : chunks[i].index <= chunks[j].index
                  /\ \A j \in 1..(i - 1) : chunks[j].index # chunks[i].index
       IN  << chunks[m] >> \o
           SortByIndex([j \in 1..(Len(chunks) - 1) |-> IF j < m THEN chunks[j] ELSE chunks[j + 1]])

\* Buffer.concat(list.map((chunk) => chunk.data))
RECURSIVE ConcatData(_)
ConcatData(chunks) ==
  IF Len(chunks) = 0 THEN << >> ELSE chunks[1].data \o ConcatData(Tail(chunks))

\* variant: the chunks are concatenated in the order given
joinChunksAsGiven(chunks) == ConcatData(chunks)

\* joinChunks(chunks)
joinChunks(chunks) == ConcatData(SortByIndex(chunks))

\* the orders a caller may pass n chunks in
Orders(n) == { f \in [1..n -> 1..n] : \A i, j \in 1..n : f[i] = f[j] => i = j }

\* A caller: the arguments of chunkBuffer, its result (or that it threw), the
\* chunks passed to joinChunks and its result.
IdleChunking == [pc |-> "idle", buffer |-> << >>, chunkSizeBytes |-> 1, chunks |-> << >>,
                 given |-> << >>, joined |-> << >>]

(***************************************************************************)
(* SyncOpBuilder (plugin).                                                 *)
(***************************************************************************)
\* fromVaultEvent calls on one builder
MaxEvents == 3
EventTypes == {"modify", "create", "rename", "delete"}
EventPaths == {"note.md", "image.png"}
VaultEvents == [type : EventTypes, path : EventPaths]

\* inferOpType(event); path.endsWith(".md") holds for "note.md" only
inferOpType(event) ==
  IF event.type = "modify" /\ event.path = "note.md" THEN "md_update"
  ELSE IF event.type = "create" THEN "file_create"
  ELSE IF event.type = "rename" THEN "file_rename"
  ELSE IF event.type = "delete" THEN "file_delete"
  ELSE "md_update"

\* new SyncOpBuilder(deviceId)
NewBuilder == [deviceId |-> "d1", logicalClock |-> 0, returned |-> << >>]

(***************************************************************************)
(* The plugin's SyncEngine with its SyncStateStore.                        *)
(***************************************************************************)
\* options.maxBatchSize ?? 100
maxBatchSize == 100
\* the ops buildOperation returns for the vault events of the plugin's device, in
\* the order of the events; fromVaultEvent gives each its idempotencyKey
PluginOps ==
  << SyncOp("e1", "md_update", "p1", "d1"), SyncOp("e2", "file_create", "p2", "d1") >>

\* outbox and cursor of the state store, the number of ops built, the seqs of the
\* remote ops applied
\* pull: a call of pullOnce, its position, the response and the index of its loop
IdlePluginPull == [pc |-> "idle", ops |-> << >>, watermark |-> 0, idx |-> 1]
NewPlugin ==
  [outbox |-> << >>, cursor |-> 0, built |-> 0, applied |-> << >>, pull |-> IdlePluginPull]

\* A call of flushOutbox: pending, the cursor it read, the acknowledgedSeq of the response.
IdleFlush == [pc |-> "idle", pending |-> << >>, cursor |-> 0, acknowledgedSeq |-> 0]

\* peekOutbox(limit): this.outbox.slice(0, limit)
peekOutbox(outbox, limit) == SubSeq(outbox, 1, Min(Len(outbox), limit))

\* ackOutbox(idempotencyKeys): the ops with none of the keys stay
ackOutbox(outbox, ops) ==
  SelectSeq(outbox, LAMBDA op : \A i \in 1..Len(ops) : ops[i].idempotencyKey # op.idempotencyKey)

(***************************************************************************)
(* The binary branch of SyncEngine.buildOperation.                         *)
(***************************************************************************)
\* binary file events handled (each with the same file content)
MaxBinaryEvents == 3
\* blobEngine.planUpload(raw, vaultKey): hash, size, chunkCount and the chunks
Plan ==
  [hash |-> "h1", size |-> BlobSize, chunkCount |-> 2,
   chunks |-> << [index |-> 0, chunkHash |-> sha256Hex("b1"), size |-> 1,
                  cipherTextBase64 |-> Base64Encode("b1")],
                 [index |-> 1, chunkHash |-> sha256Hex("b2"), size |-> 1,
                  cipherTextBase64 |-> Base64Encode("b2")] >>]
\* `${index}` in the chunk URL
IndexParam(i) == CHOOSE str \in IndexParams : NumberOf(str) = i
\* the op buildOperation returns for a binary event: opType "blob_ref" and the
\* payload naming the blob
BlobRefOp(n) ==
  [idempotencyKey |-> << "blob", n >>, opType |-> "blob_ref", deviceId |-> "d1",
   payload |-> [path |-> "image.png", blobHash |-> Plan.hash, chunkCount |-> Plan.chunkCount,
                size |-> Plan.size]]
\* events: binary events handled so far; missing: new Set(init.missingIndices);
\* idx: position of the for loop in plan.chunks; calls: the requests of this
\* event that were answered with success, in order
NewUpload == [pc |-> "idle", events |-> 0, missing |-> {}, idx |-> 1, calls |-> << >>]
SeqToSet(q) == { q[i] : i \in 1..Len(q) }

(***************************************************************************)
(* ObsyncPlugin: connectAndStart, disconnect, the reconnect timer and the  *)
(* periodic pull timer. 0 stands for null.                                 *)
(***************************************************************************)
\* connectAndStart calls that may be in flight at once, and calls ever started
NumCalls == 2
MaxConnects == 2
\* timers ever created, sockets ever opened
MaxTimers == 3
MaxSockets == 2
\* disconnect() calls, those of connectAndStart included
MaxDisconnects == 3
Calls == 1..NumCalls
NoEvent == [type |-> "none", socket |-> 0]
\* The fields of the plugin; timeouts and intervals: the pending timers of the
\* window; realtimeSocket[e]: the field of engine e; sockets[s]: the engine that
\* opened socket s, its readyState, and the number of disconnect() calls before
\* it was opened; calls[c]: the await a connectAndStart call is at.
\* History: disconnects (disconnect() calls so far), disconnected (no
\* connectAndStart was called since the last disconnect()), event (the socket
\* event the last step handled).
NewObsync ==
  [syncEngine |-> 0, shouldReconnectRealtime |-> FALSE, reconnectTimer |-> 0,
   periodicPullTimer |-> 0, reconnectAttempt |-> 0,
   timeouts |-> {}, intervals |-> {}, nextId |-> 1,
   realtimeSocket |-> << >>, sockets |-> << >>,
   calls |-> [c \in Calls |-> "idle"], connects |-> 0,
   disconnects |-> 0, disconnected |-> TRUE, event |-> NoEvent]

clearReconnectTimer(o) ==
  IF o.reconnectTimer # 0
  THEN [o EXCEPT !.timeouts = @ \ {o.reconnectTimer}, !.reconnectTimer = 0]
  ELSE o

clearPeriodicPullLoop(o) ==
  IF o.periodicPullTimer # 0
  THEN [o EXCEPT !.intervals = @ \ {o.periodicPullTimer}, !.periodicPullTimer = 0]
  ELSE o

startPeriodicPullLoop(o) ==
  LET c == clearPeriodicPullLoop(o)
  IN  [c EXCEPT !.periodicPullTimer = c.nextId, !.intervals = @ \cup {c.nextId},
                !.nextId = @ + 1]

\* socket.close(): CLOSING unless closed already
CloseSocket(sock) ==
  IF sock.readyState = "CLOSED" THEN sock ELSE [sock EXCEPT !.readyState = "CLOSING"]

\* SyncEngine.stopRealtime of engine e
stopRealtime(o, e) ==
  IF o.realtimeSocket[e] = 0 THEN o
  ELSE [o EXCEPT !.sockets[o.realtimeSocket[e]] = CloseSocket(@), !.realtimeSocket[e] = 0]

\* SyncEngine.startRealtime of engine e
engineStartRealtime(o, e) ==
  IF /\ o.realtimeSocket[e] # 0
     /\ o.sockets[o.realtimeSocket[e]].readyState \in {"OPEN", "CONNECTING"}
  THEN o
  ELSE [o EXCEPT !.sockets = Append(@, [engine |-> e, readyState |-> "CONNECTING",
                                        epoch |-> o.disconnects]),
                 !.realtimeSocket[e] = Len(o.sockets) + 1]

\* ObsyncPlugin.startRealtime
startRealtime(o) ==
  IF o.syncEngine = 0 THEN o ELSE engineStartRealtime(o, o.syncEngine)

scheduleRealtimeReconnect(o) ==
  IF o.syncEngine = 0 \/ ~ o.shouldReconnectRealtime THEN o
  ELSE IF o.reconnectTimer # 0 THEN o
  ELSE [o EXCEPT !.reconnectAttempt = @ + 1, !.reconnectTimer = o.nextId,
                 !.timeouts = @ \cup {o.nextId}, !.nextId = @ + 1]

disconnect(o) ==
  LET a == clearPeriodicPullLoop(clearReconnectTimer([o EXCEPT !.shouldReconnectRealtime = FALSE]))
      b == IF a.syncEngine = 0 THEN a ELSE stopRealtime(a, a.syncEngine)
  IN  [b EXCEPT !.syncEngine = 0, !.reconnectAttempt = 0, !.disconnects = @ + 1,
                !.disconnected = TRUE]

\* the step stays within the bounds
WithinBounds(o) ==
  /\ o.nextId <= MaxTimers + 1
  /\ Len(o.sockets) <= MaxSockets
  /\ o.disconnects <= MaxDisconnects

(***************************************************************************)
(* The headless worker (device d1): its main loop pulls until idle, then   *)
(* pushes the local changes of the mirror.                                 *)
(***************************************************************************)
\* local edits of the mirror, each of another markdown file
MaxEdits == 1
\* calls of buildLocalPushPlan that plan ops; the number of the call stands for
\* the Date.now() of its makeSyncOp calls (the loop sleeps >= 500 ms between two)
MaxPlans == 2
\* const batchSize = 100
batchSize == 100
\* times another device sends the same push
MaxOtherPushes == 2
NotePath(e) == << "note", e >>
\* makeSyncOp(state, path, opType, payload) with state.logicalClock already
\* incremented to logicalClock, at time now
makeSyncOp(logicalClock, path, now) ==
  [idempotencyKey |-> << "headless-d1", logicalClock, now >>, opType |-> "md_update",
   payload |-> [path |-> path, yUpdateBase64 |-> "u1"], deviceId |-> "d1"]
\* the pushes of another device: an md_update the worker can apply, and one
\* whose payload has no yUpdateBase64
WorkerOtherBatches ==
  { [deviceId |-> "d2", cursor |-> 0,
     ops |-> << [idempotencyKey |-> << "d2", 1, 0 >>, opType |-> "md_update",
                 payload |-> [path |-> NotePath(0), yUpdateBase64 |-> "u2"], deviceId |-> "d2"] >>],
    [deviceId |-> "d2", cursor |-> 0,
     ops |-> << [idempotencyKey |-> << "d2", 2, 0 >>, opType |-> "md_update",
                 payload |-> [path |-> NotePath(0)], deviceId |-> "d2"] >>] }
\* the pushes whose ops the worker can apply
WorkerGoodBatches ==
  { b \in WorkerOtherBatches : \A i \in 1..Len(b.ops) : "yUpdateBase64" \in DOMAIN b.ops[i].payload }
\* state.cursor, state.logicalClock; applied: the seqs of the ops applied to the
\* mirror; edits: local edits so far; synced: the edits whose file hash is in
\* state.fileHashes; handler: the push handler whose response is awaited;
\* plans: calls of buildLocalPushPlan that planned ops; ops, offset, cursor of
\* pushLocalChanges; the pull response and the index of applyRemoteOps;
\* emptyPull: the last pull of the loop returned no ops;
\* others: the pushes other devices have sent, a retry counted again; stopped:
\* the other devices push no more
NewWorker ==
  [pc |-> "pull", cursor |-> 0, logicalClock |-> 0, applied |-> {}, edits |-> 0, synced |-> {},
   plans |-> 0, ops |-> << >>, offset |-> 0, pushCursor |-> 0, handler |-> 0,
   response |-> [ops |-> << >>, watermark |-> 0], idx |-> 1, emptyPull |-> FALSE,
   others |-> << >>, stopped |-> FALSE]

\* the edited files whose hash differs from state.fileHashes, in scan order
RECURSIVE ChangedFrom(_, _)
ChangedFrom(e, w) ==
  IF e > w.edits THEN << >>
  ELSE IF e \in w.synced THEN ChangedFrom(e + 1, w)
  ELSE << e >> \o ChangedFrom(e + 1, w)
Changed(w) == ChangedFrom(1, w)

\* buildLocalPushPlan: one md_update per changed markdown file
buildLocalPushPlan(w, now) ==
  [i \in 1..Len(Changed(w)) |-> makeSyncOp(w.logicalClock + i, NotePath(Changed(w)[i]), now)]

\* mergeMarkdownUpdate sets state.fileHashes[path] to the hash of the merged
\* content: an edit of the mirror whose own update comes back is in sync
SyncedBy(op) == IF op.opType = "md_update" THEN {op.payload.path[2]} \ {0} ELSE {}

\* applyRemoteOps throws for an md_update without yUpdateBase64
Appliable(op) == op.opType = "md_update" => "yUpdateBase64" \in DOMAIN op.payload

Init ==
  /\ op_log = {}
  /\ pending = [h \in Handlers |-> NoRow]
  /\ nextSeq = 1
  /\ sync_cursors = [k \in Devices \X Vaults |-> NoCursor]
  /\ handler = [h \in Handlers |-> IdleHandler]
  /\ puller = [p \in Pullers |-> IdlePuller]
  /\ conn = [c \in Conns |-> NewConn]
  /\ listeners = [v \in Vaults |-> {}]
  /\ observedMax = [v \in Vaults |-> 0]
  /\ firstAck = [k \in Vaults \X Batches |-> NoAck]
  /\ pushHist = [h \in Handlers |-> NoPushHist]
  /\ blobs = [h \in Hashes |-> NoBlob]
  /\ blob_chunks = [k \in ChunkKeys |-> NoChunk]
  /\ files = [k \in ChunkKeys |-> NoFile]
  /\ clock = 1
  /\ blobReq = [r \in BlobHandlers |-> IdleBlobReq]
  /\ lastPut = [k \in ChunkKeys |-> NoPut]
  /\ getClean = [r \in BlobHandlers |-> FALSE]
  /\ vaults = [v \in Vaults |-> NoVault]
  /\ gate = [g \in Gates |-> IdleGate]
  /\ loop = IdleLoop
  /\ loopLog = {}
  /\ engine = IdleEngine
  /\ chunking = IdleChunking
  /\ builder = NewBuilder
  /\ pushBase = [h \in Handlers |-> NoBase]
  /\ plugin = NewPlugin
  /\ flush = [f \in Handlers |-> IdleFlush]
  /\ upload = NewUpload
  /\ obsync = NewObsync
  /\ worker = NewWorker

(***************************************************************************)
(* POST /v1/vaults/:vaultId/sync/push                                      *)
(***************************************************************************)
\* The request passed authentication, the scope and owner checks and the schema;
\* acknowledgedSeq = requestBody.cursor, appliedCount = 0, first op of the loop.
PushStart(h, v, b) ==
  /\ handler[h].pc = "idle"
  /\ handler' = [handler EXCEPT ![h] =
       [IdleHandler EXCEPT !.pc = "insert", !.vaultId = v, !.body = b,
                           !.idx = 1, !.acknowledgedSeq = b.cursor, !.appliedCount = 0]]
  /\ UNCHANGED << op_log, pending, nextSeq, sync_cursors, puller, conn, listeners >>

CurrentOp(h) == handler[h].body.ops[handler[h].idx]

\* the row the INSERT of handler h writes, with the seq drawn from the sequence
NewRow(h, s) ==
  [seq |-> s, vault_id |-> handler[h].vaultId, op_type |-> CurrentOp(h).opType,
   payload |-> CurrentOp(h).payload, idempotency_key |-> CurrentOp(h).idempotencyKey,
   author_device_id |-> CurrentOp(h).deviceId]

\* variant: idempotency_key without the UNIQUE constraint
KeyNeverConflicts(k) == FALSE

\* idempotency_key TEXT UNIQUE: a committed row holds the key
KeyCommitted(k) == \E r \in op_log : r.idempotency_key = k
\* an uncommitted row of another handler holds the key: the INSERT waits for it
KeyPending(h, k) == \E o \in Handlers \ {h} : pending[o] # NoRow /\ pending[o].idempotency_key = k

\* variant: ON CONFLICT (idempotency_key) DO UPDATE, the row of the key is overwritten
DbInsertUpsert(h) ==
  /\ handler[h].pc = "insert"
  /\ nextSeq <= MaxSeq
  /\ ~ KeyPending(h, CurrentOp(h).idempotencyKey)
  /\ nextSeq' = nextSeq + 1
  /\ IF KeyCommitted(CurrentOp(h).idempotencyKey)
     THEN LET old == CHOOSE r \in op_log : r.idempotency_key = CurrentOp(h).idempotencyKey
          IN  /\ op_log' = (op_log \ {old}) \cup {NewRow(h, old.seq)}
              /\ handler' = [handler EXCEPT ![h].pc = "inserted", ![h].ret = old.seq]
              /\ UNCHANGED pending
     ELSE /\ pending' = [pending EXCEPT ![h] = NewRow(h, nextSeq)]
          /\ handler' = [handler EXCEPT ![h].pc = "commit"]
          /\ UNCHANGED op_log
  /\ UNCHANGED << sync_cursors, puller, conn, listeners >>

\* The INSERT statement runs in the database. nextval() is evaluated for the
\* seq column before the unique index is consulted, so the sequence advances
\* also when ON CONFLICT DO NOTHING drops the row.
DbInsert(h) ==
  /\ handler[h].pc = "insert"
  /\ nextSeq <= MaxSeq
  /\ ~ KeyPending(h, CurrentOp(h).idempotencyKey)
  /\ nextSeq' = nextSeq + 1
  /\ IF KeyCommitted(CurrentOp(h).idempotencyKey)
     THEN /\ handler' = [handler EXCEPT ![h].pc = "inserted", ![h].ret = 0]
          /\ UNCHANGED pending
     ELSE /\ pending' = [pending EXCEPT ![h] = NewRow(h, nextSeq)]
          /\ handler' = [handler EXCEPT ![h].pc = "commit"]
  /\ UNCHANGED << op_log, sync_cursors, puller, conn, listeners >>

\* The implicit transaction of the INSERT commits: the row is visible, RETURNING seq.
DbCommit(h) ==
  /\ handler[h].pc = "commit"
  /\ op_log' = op_log \cup {pending[h]}
  /\ pending' = [pending EXCEPT ![h] = NoRow]
  /\ handler' = [handler EXCEPT ![h].pc = "inserted", ![h].ret = pending[h].seq]
  /\ UNCHANGED << nextSeq, sync_cursors, puller, conn, listeners >>

\* variant: the bus has one topic for all vaults
PublishToAll(event) ==
  conn' = [c \in Conns |->
            IF (\E v \in Vaults : c \in listeners[v]) /\ conn[c].readyState = 1
            THEN [conn[c] EXCEPT !.sent = Append(@, [type |-> "event", event |-> event])]
            ELSE conn[c]]

\* RealtimeBus.publish: emitter.emit calls every listener of the topic in turn;
\* the listener of the realtime route sends when socket.readyState === 1.
Publish(event) ==
  conn' = [c \in Conns |->
            IF c \in listeners[event.vaultId] /\ conn[c].readyState = 1
            THEN [conn[c] EXCEPT !.sent = Append(@, [type |-> "event", event |-> event])]
            ELSE conn[c]]

\* end of one iteration of `for (const op of requestBody.ops)`
NextOp(hr, seq) ==
  [hr EXCEPT !.acknowledgedSeq = Max(hr.acknowledgedSeq, seq),
             !.idx = hr.idx + 1,
             !.pc = IF hr.idx + 1 > Len(hr.body.ops) THEN "cursor" ELSE "insert"]

\* String(op.payload.blobHash ?? "")
BlobHashOf(payload) == IF "blobHash" \in DOMAIN payload THEN payload.blobHash ELSE ""
\* Number(op.payload.index ?? 0)
BlobIndexOf(payload) == IF "index" \in DOMAIN payload THEN payload.index ELSE 0

\* `if (op.opType === "blob_ref")` and `if (blobHash)`: the handler awaits the
\* SELECT on blobs
LooksUpBlob(op) == op.opType = "blob_ref" /\ BlobHashOf(op.payload) # ""

\* The rest of the iteration once seq is known: the blob lookup of a blob_ref op,
\* or straight to the end of the iteration.
AfterSeq(hr, seq) ==
  IF LooksUpBlob(hr.body.ops[hr.idx])
  THEN [hr EXCEPT !.pc = "blobLookup", !.seq = seq]
  ELSE NextOp(hr, seq)

\* The continuation after `await pool.query(INSERT ...)` for a row that was inserted.
PushInserted(h) ==
  /\ handler[h].pc = "inserted"
  /\ handler[h].ret # 0
  /\ Publish([vaultId |-> handler[h].vaultId, seq |-> handler[h].ret,
              opType |-> CurrentOp(h).opType, payload |-> CurrentOp(h).payload])
  /\ handler' = [handler EXCEPT ![h] =
                   AfterSeq([handler[h] EXCEPT !.appliedCount = @ + 1], handler[h].ret)]
  /\ UNCHANGED << op_log, pending, nextSeq, sync_cursors, puller, listeners >>

\* variant: the seq of the existing row is never looked up
ExistingSeqNotRead(k) == 0

\* SELECT seq FROM op_log WHERE idempotency_key = $1, and Number(existing?.seq ?? 0)
ExistingSeq(k) ==
  IF KeyCommitted(k) THEN (CHOOSE r \in op_log : r.idempotency_key = k).seq ELSE 0

\* variant: a coalesced op is counted as applied
PushCoalescedCounted(h) ==
  /\ handler[h].pc = "inserted"
  /\ handler[h].ret = 0
  /\ handler' = [handler EXCEPT ![h] =
                   AfterSeq([handler[h] EXCEPT !.appliedCount = @ + 1],
                            ExistingSeq(CurrentOp(h).idempotencyKey))]
  /\ UNCHANGED << op_log, pending, nextSeq, sync_cursors, puller, conn, listeners >>

\* The continuation for a coalesced op: insert.rows is empty, the handler reads the
\* seq of the existing row.
PushCoalesced(h) ==
  /\ handler[h].pc = "inserted"
  /\ handler[h].ret = 0
  /\ handler' = [handler EXCEPT ![h] = AfterSeq(handler[h], ExistingSeq(CurrentOp(h).idempotencyKey))]
  /\ UNCHANGED << op_log, pending, nextSeq, sync_cursors, puller, conn, listeners >>

\* SELECT hash, committed_at FROM blobs WHERE hash = $1
BlobRow(hash) == IF hash \in DOMAIN blobs THEN blobs[hash] ELSE NoBlob

\* variant: every referenced blob is reported
BlobMissingAlways(blob) == TRUE

\* !blob || !blob.committed_at
BlobMissing(blob) == blob = NoBlob \/ blob.committed_at = Null

\* The continuation of a blob_ref op: the blob is looked up, an entry is pushed on
\* missingChunks when it is missing or not committed; end of the iteration.
PushBlobLookup(h) ==
  /\ handler[h].pc = "blobLookup"
  /\ LET blobHash == BlobHashOf(CurrentOp(h).payload)
         entry == [blobHash |-> blobHash, index |-> BlobIndexOf(CurrentOp(h).payload)]
     IN  handler' = [handler EXCEPT ![h] =
           NextOp([handler[h] EXCEPT !.missingChunks =
                      IF BlobMissing(BlobRow(blobHash)) THEN Append(@, entry) ELSE @],
                  handler[h].seq)]
  /\ UNCHANGED << op_log, pending, nextSeq, sync_cursors, puller, conn, listeners >>

\* A store call of the handler rejects (the INSERT before it wrote a row, the
\* SELECT of the existing seq, the blob lookup, the cursor upsert): the handler
\* throws and the error handler replies 500 INTERNAL_ERROR.
PushStoreError(h) ==
  /\ \/ handler[h].pc \in {"insert", "blobLookup", "cursor"}
     \/ handler[h].pc = "inserted" /\ handler[h].ret = 0
  /\ handler' = [handler EXCEPT ![h].pc = "failed"]
  /\ UNCHANGED << op_log, pending, nextSeq, sync_cursors, puller, conn, listeners >>

\* The client has the error response; the handler slot is free again.
PushFailedReturn(h) ==
  /\ handler[h].pc = "failed"
  /\ handler' = [handler EXCEPT ![h] = IdleHandler]
  /\ UNCHANGED << op_log, pending, nextSeq, sync_cursors, puller, conn, listeners >>

\* INSERT INTO sync_cursors ... ON CONFLICT DO UPDATE SET last_applied_seq = EXCLUDED.last_applied_seq
UpsertCursorSet(cur, d, v, s) == [cur EXCEPT ![<<d, v>>] = s]

\* The cursor upsert of the push handler, then reply.send({acknowledgedSeq, appliedCount, ...}).
PushCursor(h) ==
  /\ handler[h].pc = "cursor"
  /\ sync_cursors' = UpsertCursorSet(sync_cursors, handler[h].body.deviceId, handler[h].vaultId,
                                     handler[h].acknowledgedSeq)
  /\ handler' = [handler EXCEPT ![h].pc = "done"]
  /\ UNCHANGED << op_log, pending, nextSeq, puller, conn, listeners >>

\* The client has the response; the handler slot is free again.
PushReturn(h) ==
  /\ handler[h].pc = "done"
  /\ handler' = [handler EXCEPT ![h] = IdleHandler]
  /\ UNCHANGED << op_log, pending, nextSeq, sync_cursors, puller, conn, listeners >>

(***************************************************************************)
(* GET /v1/vaults/:vaultId/sync/pull                                       *)
(***************************************************************************)
\* The request passed authentication and the scope and owner checks.
PullStart(p, v, since, limit, d) ==
  /\ puller[p].pc = "idle"
  /\ puller' = [puller EXCEPT ![p] =
       [IdlePuller EXCEPT !.pc = "select", !.vaultId = v, !.since = since,
                          !.limit = limit, !.deviceId = d]]
  /\ UNCHANGED << op_log, pending, nextSeq, sync_cursors, handler, conn, listeners >>

\* ops.length > 0 ? Number(ops[ops.length - 1].seq) : since
Watermark(ops, since) == IF Len(ops) > 0 THEN ops[Len(ops)].seq ELSE since

\* The SELECT of the pull handler and the continuation that computes the watermark;
\* without query.deviceId the handler answers at once.
PullSelect(p) ==
  /\ puller[p].pc = "select"
  /\ LET ops == SelectOpsSince(op_log, puller[p].vaultId, puller[p].since, PullLimit(puller[p].limit))
     IN  /\ puller' = [puller EXCEPT ![p].ops = MapSeq(PullOp, ops),
                                     ![p].watermark = Watermark(ops, puller[p].since),
                                     ![p].pc = IF puller[p].deviceId # NoDevice
                                               THEN "cursor" ELSE "done"]
  /\ UNCHANGED << op_log, pending, nextSeq, sync_cursors, handler, conn, listeners >>

\* ... DO UPDATE SET last_applied_seq = GREATEST(sync_cursors.last_applied_seq, EXCLUDED.last_applied_seq)
UpsertCursorGreatest(cur, d, v, s) == [cur EXCEPT ![<<d, v>>] = Max(@, s)]

\* The cursor upsert of the pull handler, then reply.send({watermark, ops}).
PullCursor(p) ==
  /\ puller[p].pc = "cursor"
  /\ sync_cursors' = UpsertCursorGreatest(sync_cursors, puller[p].deviceId, puller[p].vaultId,
                                          puller[p].watermark)
  /\ puller' = [puller EXCEPT ![p].pc = "done"]
  /\ UNCHANGED << op_log, pending, nextSeq, handler, conn, listeners >>

\* The client has the response; the handler slot is free again.
PullReturn(p) ==
  /\ puller[p].pc = "done"
  /\ puller' = [puller EXCEPT ![p] = IdlePuller]
  /\ UNCHANGED << op_log, pending, nextSeq, sync_cursors, handler, conn, listeners >>

(***************************************************************************)
(* GET /v1/vaults/:vaultId/realtime (websocket)                            *)
(***************************************************************************)
\* The upgrade of an authorized owner of v: the handler awaits the backlog query.
RtOpen(c, v, since) ==
  /\ conn[c].pc = "new"
  /\ conn' = [conn EXCEPT ![c] = [NewConn EXCEPT !.pc = "backlog", !.vaultId = v,
                                                 !.since = since, !.readyState = 1]]
  /\ UNCHANGED << op_log, pending, nextSeq, sync_cursors, handler, puller, listeners >>

\* The backlog SELECT runs in the database.
RtBacklogSelect(c) ==
  /\ conn[c].pc = "backlog"
  /\ LET rows == SelectOpsSince(op_log, conn[c].vaultId, conn[c].since, BacklogLimit)
     IN  /\ conn' = [conn EXCEPT ![c].backlog = MapSeq(BacklogEvent, rows), ![c].pc = "backlogDone"]
  /\ UNCHANGED << op_log, pending, nextSeq, sync_cursors, handler, puller, listeners >>

\* variant: a keepalive envelope is sent as soon as the handler resumes, before the backlog
RtSubscribeKeepaliveFirst(c) ==
  /\ conn[c].pc = "backlogDone"
  /\ conn' = [conn EXCEPT ![c].pc = "live", ![c].keepalive = TRUE,
                          ![c].sent = IF conn[c].readyState = 1
                                      THEN << [type |-> "keepalive"],
                                              [type |-> "backlog", events |-> conn[c].backlog] >>
                                      ELSE @]
  /\ listeners' = [listeners EXCEPT ![conn[c].vaultId] = @ \cup {c}]
  /\ UNCHANGED << op_log, pending, nextSeq, sync_cursors, handler, puller >>

\* The continuation: socket.send(backlog), realtimeBus.subscribe, setInterval(keepalive),
\* socket.on("close"). A send on a socket that is no longer open sends nothing.
RtSubscribe(c) ==
  /\ conn[c].pc = "backlogDone"
  /\ conn' = [conn EXCEPT ![c].pc = "live", ![c].keepalive = TRUE,
                          ![c].sent = IF conn[c].readyState = 1
                                      THEN Append(@, [type |-> "backlog", events |-> conn[c].backlog])
                                      ELSE @]
  /\ listeners' = [listeners EXCEPT ![conn[c].vaultId] = @ \cup {c}]
  /\ UNCHANGED << op_log, pending, nextSeq, sync_cursors, handler, puller >>

\* The client closes the socket. The "close" listener exists only once the handler
\* has run to its end; it clears the keepalive interval and unsubscribes.
RtClose(c) ==
  /\ conn[c].readyState = 1
  /\ conn' = [conn EXCEPT ![c].readyState = 3,
                          ![c].keepalive = IF conn[c].pc = "live" THEN FALSE ELSE @]
  /\ listeners' = IF conn[c].pc = "live"
                  THEN [listeners EXCEPT ![conn[c].vaultId] = @ \ {c}]
                  ELSE listeners
  /\ UNCHANGED << op_log, pending, nextSeq, sync_cursors, handler, puller >>

KeepaliveMsgs(msgs) == SelectSeq(msgs, LAMBDA m : m.type = "keepalive")

\* The keepalive interval fires: an envelope is sent when socket.readyState === 1.
RtKeepalive(c) ==
  /\ conn[c].keepalive
  /\ Len(KeepaliveMsgs(conn[c].sent)) < MaxKeepalive
  /\ conn' = [conn EXCEPT ![c].sent = IF conn[c].readyState = 1
                                      THEN Append(@, [type |-> "keepalive"])
                                      ELSE @]
  /\ UNCHANGED << op_log, pending, nextSeq, sync_cursors, handler, puller, listeners >>

\* The peer of an open socket stops reading: the socket stays open (readyState 1)
\* and what the server sends from now on is queued in the socket's send buffer.
RtStall(c) ==
  /\ conn[c].readyState = 1
  /\ ~ conn[c].stalled
  /\ conn' = [conn EXCEPT ![c].stalled = TRUE]
  /\ UNCHANGED << op_log, pending, nextSeq, sync_cursors, handler, puller, listeners >>

(***************************************************************************)
(* POST /v1/vaults/:vaultId/blobs/init                                     *)
(***************************************************************************)
\* The request passed authentication, the scope and owner checks and the schema.
InitStart(r, h, size, chunkCount) ==
  /\ blobReq[r].pc = "idle"
  /\ blobReq' = [blobReq EXCEPT ![r] =
       [IdleBlobReq EXCEPT !.pc = "initInsert", !.kind = "init",
                           !.req = [hash |-> h, size |-> size, chunkCount |-> chunkCount]]]
  /\ UNCHANGED << blobs, blob_chunks, files, clock >>

\* INSERT INTO blobs(hash, size, chunk_count, cipher_alg) ... ON CONFLICT (hash) DO NOTHING
InitInsert(r) ==
  /\ blobReq[r].pc = "initInsert"
  /\ blobs' = IF blobs[blobReq[r].req.hash] = NoBlob
              THEN [blobs EXCEPT ![blobReq[r].req.hash] =
                      [size |-> blobReq[r].req.size, chunk_count |-> blobReq[r].req.chunkCount,
                       committed_at |-> Null]]
              ELSE blobs
  /\ blobReq' = [blobReq EXCEPT ![r].pc = "initSelect"]
  /\ UNCHANGED << blob_chunks, files, clock >>

\* SELECT idx FROM blob_chunks WHERE blob_hash = $1
ChunkIndices(h) == { i \in Indices : blob_chunks[<<h, i>>] # NoChunk }

\* for (let index = 0; index < payload.chunkCount; index += 1)
\*   if (!existingSet.has(index)) missingIndices.push(index)
RECURSIVE MissingFrom(_, _, _)
MissingFrom(index, chunkCount, existingSet) ==
  IF index < chunkCount
  THEN (IF index \in existingSet THEN << >> ELSE << index >>)
       \o MissingFrom(index + 1, chunkCount, existingSet)
  ELSE << >>

\* variant: the existing chunk rows are not read
InitSelectAll(r) ==
  /\ blobReq[r].pc = "initSelect"
  /\ blobReq' = [blobReq EXCEPT ![r].pc = "done",
        ![r].res = [code |-> "ok",
                    missingIndices |-> MissingFrom(0, blobReq[r].req.chunkCount, {})]]
  /\ UNCHANGED << blobs, blob_chunks, files, clock >>

\* SELECT idx ..., missingIndices = [0, chunkCount) without the existing ones, reply 201
InitSelect(r) ==
  /\ blobReq[r].pc = "initSelect"
  /\ blobReq' = [blobReq EXCEPT ![r].pc = "done",
        ![r].res = [code |-> "ok",
                    missingIndices |-> MissingFrom(0, blobReq[r].req.chunkCount,
                                                   ChunkIndices(blobReq[r].req.hash))]]
  /\ UNCHANGED << blobs, blob_chunks, files, clock >>

(***************************************************************************)
(* PUT /v1/vaults/:vaultId/blobs/:blobHash/chunks/:index                   *)
(***************************************************************************)
\* variant: the chunk is written without comparing the hashes
PutStartNoCheck(r, h, index, chunkHash, size, text) ==
  /\ blobReq[r].pc = "idle"
  /\ LET rq == [hash |-> h, index |-> index, chunkHash |-> chunkHash, size |-> size,
                cipherTextBase64 |-> text]
     IN  blobReq' = [blobReq EXCEPT ![r] =
           IF size = 0
           THEN [IdleBlobReq EXCEPT !.pc = "done", !.kind = "put", !.req = rq,
                                    !.res = [code |-> "INVALID_CHUNK_PAYLOAD"]]
           ELSE [IdleBlobReq EXCEPT !.pc = "write", !.kind = "put", !.req = rq]]
  /\ UNCHANGED << blobs, blob_chunks, files, clock >>

\* The request passed authentication and the scope and owner checks. The body is
\* checked for its three fields, then sha256Hex of the decoded bytes is compared
\* with body.chunkHash.
PutStart(r, h, index, chunkHash, size, text) ==
  /\ blobReq[r].pc = "idle"
  /\ LET rq == [hash |-> h, index |-> index, chunkHash |-> chunkHash, size |-> size,
                cipherTextBase64 |-> text]
         raw == Base64Decode(text)
     IN  blobReq' = [blobReq EXCEPT ![r] =
           IF size = 0
           THEN [IdleBlobReq EXCEPT !.pc = "done", !.kind = "put", !.req = rq,
                                    !.res = [code |-> "INVALID_CHUNK_PAYLOAD"]]
           ELSE IF sha256Hex(raw) # chunkHash
           THEN [IdleBlobReq EXCEPT !.pc = "done", !.kind = "put", !.req = rq,
                                    !.res = [code |-> "CHUNK_HASH_MISMATCH"]]
           ELSE [IdleBlobReq EXCEPT !.pc = "write", !.kind = "put", !.req = rq]]
  /\ UNCHANGED << blobs, blob_chunks, files, clock >>

\* blobStore.writeChunk(blobHash, numericIndex, raw): writeFile(storageKey, raw)
PutWrite(r) ==
  /\ blobReq[r].pc = "write"
  /\ LET key == StorageKey(blobReq[r].req.hash, NumberOf(blobReq[r].req.index))
     IN  /\ files' = [files EXCEPT ![key] = Base64Decode(blobReq[r].req.cipherTextBase64)]
         /\ blobReq' = [blobReq EXCEPT ![r].pc = "upsert", ![r].row = key]
  /\ UNCHANGED << blobs, blob_chunks, clock >>

\* INSERT INTO blob_chunks ... ON CONFLICT(blob_hash, idx) DO UPDATE SET chunk_hash, size,
\* storage_key; blob_hash REFERENCES blobs(hash): without the blob row the statement
\* fails and the handler throws. Then reply {blobHash, index, persisted: true}.
PutUpsert(r) ==
  /\ blobReq[r].pc = "upsert"
  /\ IF blobs[blobReq[r].req.hash] = NoBlob
     THEN /\ blobReq' = [blobReq EXCEPT ![r].pc = "done", ![r].res = [code |-> "INTERNAL_ERROR"]]
          /\ UNCHANGED blob_chunks
     ELSE /\ blob_chunks' = [blob_chunks EXCEPT
                ![<<blobReq[r].req.hash, NumberOf(blobReq[r].req.index)>>] =
                   [chunk_hash |-> blobReq[r].req.chunkHash, size |-> blobReq[r].req.size,
                    storage_key |-> blobReq[r].row]]
          /\ blobReq' = [blobReq EXCEPT ![r].pc = "done",
                ![r].res = [code |-> "ok", index |-> NumberOf(blobReq[r].req.index), persisted |-> TRUE]]
  /\ UNCHANGED << blobs, files, clock >>

(***************************************************************************)
(* GET /v1/vaults/:vaultId/blobs/:blobHash                                 *)
(***************************************************************************)
ManifestStart(r, h) ==
  /\ blobReq[r].pc = "idle"
  /\ blobReq' = [blobReq EXCEPT ![r] =
       [IdleBlobReq EXCEPT !.pc = "blobSelect", !.kind = "manifest", !.req = [hash |-> h]]]
  /\ UNCHANGED << blobs, blob_chunks, files, clock >>

\* SELECT ... FROM blobs WHERE hash = $1; if (!blob || !blob.committed_at) BLOB_NOT_FOUND
ManifestBlobSelect(r) ==
  /\ blobReq[r].pc = "blobSelect"
  /\ LET blob == blobs[blobReq[r].req.hash]
     IN  blobReq' = [blobReq EXCEPT ![r] =
           IF blob = NoBlob \/ blob.committed_at = Null
           THEN [@ EXCEPT !.pc = "done", !.res = [code |-> "BLOB_NOT_FOUND"]]
           ELSE [@ EXCEPT !.pc = "chunksSelect", !.row = blob]]
  /\ UNCHANGED << blobs, blob_chunks, files, clock >>

\* SELECT idx, chunk_hash, size FROM blob_chunks WHERE blob_hash = $1 ORDER BY idx ASC, reply
ManifestChunksSelect(r) ==
  /\ blobReq[r].pc = "chunksSelect"
  /\ blobReq' = [blobReq EXCEPT ![r].pc = "done",
        ![r].res = [code |-> "ok", size |-> blobReq[r].row.size,
                    chunkCount |-> blobReq[r].row.chunk_count,
                    chunks |-> { [index |-> i,
                                  chunkHash |-> blob_chunks[<<blobReq[r].req.hash, i>>].chunk_hash,
                                  size |-> blob_chunks[<<blobReq[r].req.hash, i>>].size] :
                                 i \in ChunkIndices(blobReq[r].req.hash) }]]
  /\ UNCHANGED << blobs, blob_chunks, files, clock >>

(***************************************************************************)
(* GET /v1/vaults/:vaultId/blobs/:blobHash/chunks/:index                   *)
(***************************************************************************)
GetChunkStart(r, h, index) ==
  /\ blobReq[r].pc = "idle"
  /\ blobReq' = [blobReq EXCEPT ![r] =
       [IdleBlobReq EXCEPT !.pc = "chunkSelect", !.kind = "getChunk",
                           !.req = [hash |-> h, index |-> index]]]
  /\ UNCHANGED << blobs, blob_chunks, files, clock >>

\* SELECT storage_key, chunk_hash, size FROM blob_chunks WHERE blob_hash = $1 AND idx = $2
GetChunkSelect(r) ==
  /\ blobReq[r].pc = "chunkSelect"
  /\ LET chunk == blob_chunks[<<blobReq[r].req.hash, NumberOf(blobReq[r].req.index)>>]
     IN  blobReq' = [blobReq EXCEPT ![r] =
           IF chunk = NoChunk
           THEN [@ EXCEPT !.pc = "done", !.res = [code |-> "CHUNK_NOT_FOUND"]]
           ELSE [@ EXCEPT !.pc = "read", !.row = chunk]]
  /\ UNCHANGED << blobs, blob_chunks, files, clock >>

\* blobStore.readChunk(chunk.storage_key), reply with raw.toString("base64")
GetChunkRead(r) ==
  /\ blobReq[r].pc = "read"
  /\ blobReq' = [blobReq EXCEPT ![r].pc = "done",
        ![r].res = [code |-> "ok", index |-> NumberOf(blobReq[r].req.index),
                    chunkHash |-> blobReq[r].row.chunk_hash, size |-> blobReq[r].row.size,
                    cipherTextBase64 |-> Base64Encode(files[blobReq[r].row.storage_key])]]
  /\ UNCHANGED << blobs, blob_chunks, files, clock >>

(***************************************************************************)
(* POST /v1/vaults/:vaultId/blobs/:blobHash/commit                         *)
(***************************************************************************)
\* The request passed authentication and the scope and owner checks; the body
\* matches the schema; body.hash must be the hash of the URL.
CommitStart(r, h, bodyHash, expectedChunkCount, expectedSize) ==
  /\ blobReq[r].pc = "idle"
  /\ LET rq == [hash |-> h, bodyHash |-> bodyHash, expectedChunkCount |-> expectedChunkCount,
                expectedSize |-> expectedSize]
     IN  blobReq' = [blobReq EXCEPT ![r] =
           IF bodyHash # h
           THEN [IdleBlobReq EXCEPT !.pc = "done", !.kind = "commit", !.req = rq,
                                    !.res = [code |-> "INVALID_BLOB_COMMIT_PAYLOAD"]]
           ELSE [IdleBlobReq EXCEPT !.pc = "count", !.kind = "commit", !.req = rq]]
  /\ UNCHANGED << blobs, blob_chunks, files, clock >>

\* count(*) FROM blob_chunks WHERE blob_hash = $1
CountChunks(h) == Cardinality(ChunkIndices(h))

\* coalesce(sum(size), 0) FROM blob_chunks WHERE blob_hash = $1
RECURSIVE SumOver(_, _)
SumOver(h, is) ==
  IF is = {} THEN 0
  ELSE LET i == CHOOSE i \in is : TRUE
       IN  blob_chunks[<<h, i>>].size + SumOver(h, is \ {i})
SumSize(h) == SumOver(h, ChunkIndices(h))

\* variant: only the number of chunks is compared
CommitCountOnly(r) ==
  /\ blobReq[r].pc = "count"
  /\ LET currentCount == CountChunks(blobReq[r].req.hash)
         currentSize == SumSize(blobReq[r].req.hash)
     IN  blobReq' = [blobReq EXCEPT ![r] =
           IF currentCount < blobReq[r].req.expectedChunkCount
           THEN [@ EXCEPT !.pc = "done",
                          !.res = [code |-> "BLOB_INCOMPLETE", currentCount |-> currentCount,
                                   currentSize |-> currentSize]]
           ELSE [@ EXCEPT !.pc = "update"]]
  /\ UNCHANGED << blobs, blob_chunks, files, clock >>

\* SELECT count(*), coalesce(sum(size), 0) ...; BLOB_INCOMPLETE when
\* currentCount < expectedChunkCount || currentSize < expectedSize
CommitCount(r) ==
  /\ blobReq[r].pc = "count"
  /\ LET currentCount == CountChunks(blobReq[r].req.hash)
         currentSize == SumSize(blobReq[r].req.hash)
     IN  blobReq' = [blobReq EXCEPT ![r] =
           IF currentCount < blobReq[r].req.expectedChunkCount \/ currentSize < blobReq[r].req.expectedSize
           THEN [@ EXCEPT !.pc = "done",
                          !.res = [code |-> "BLOB_INCOMPLETE", currentCount |-> currentCount,
                                   currentSize |-> currentSize]]
           ELSE [@ EXCEPT !.pc = "update"]]
  /\ UNCHANGED << blobs, blob_chunks, files, clock >>

\* UPDATE blobs SET committed_at = now() WHERE hash = $1, reply {hash, committed: true}.
\* now() of a statement is later than now() of every statement that ran before it.
CommitUpdate(r) ==
  /\ blobReq[r].pc = "update"
  /\ clock <= MaxClock
  /\ blobs' = IF blobs[blobReq[r].req.hash] = NoBlob THEN blobs
              ELSE [blobs EXCEPT ![blobReq[r].req.hash].committed_at = clock]
  /\ clock' = clock + 1
  /\ blobReq' = [blobReq EXCEPT ![r].pc = "done", ![r].res = [code |-> "ok", committed |-> TRUE]]
  /\ UNCHANGED << blob_chunks, files >>

\* The client has the response; the handler slot is free again.
BlobReturn(r) ==
  /\ blobReq[r].pc = "done"
  /\ blobReq' = [blobReq EXCEPT ![r] = IdleBlobReq]
  /\ UNCHANGED << blobs, blob_chunks, files, clock >>

(***************************************************************************)
(* The access checks of the vault routes.                                  *)
(***************************************************************************)
\* POST /v1/vaults by a principal with write scope: INSERT INTO vaults(name, owner_user_id)
VaultCreate(a, v) ==
  /\ requireScope("write", a.scopes)
  /\ vaults[v] = NoVault
  /\ vaults' = [vaults EXCEPT ![v] = a.userId]
  /\ UNCHANGED gate

\* An authenticated request arrives at a vault route: requireScope; without the
\* scope the handler answers FORBIDDEN, with it the handler awaits assertVaultAccess.
GateStart(g, op, a, v) ==
  /\ gate[g].pc = "idle"
  /\ gate' = [gate EXCEPT ![g] =
       IF ~ requireScope(RouteScope(op), a.scopes)
       THEN [IdleGate EXCEPT !.pc = "done", !.op = op, !.auth = a, !.vaultId = v,
                             !.res = [code |-> "FORBIDDEN"]]
       ELSE [IdleGate EXCEPT !.pc = "access", !.op = op, !.auth = a, !.vaultId = v]]
  /\ UNCHANGED vaults

\* The SELECT of assertVaultAccess runs; the handler answers VAULT_NOT_FOUND when
\* the vault has no row or another owner.
GateAccess(g) ==
  /\ gate[g].pc = "access"
  /\ gate' = [gate EXCEPT ![g] =
       IF ~ assertVaultAccess(gate[g].vaultId, gate[g].auth.userId)
       THEN [@ EXCEPT !.pc = "done", !.res = [code |-> "VAULT_NOT_FOUND"]]
       ELSE [@ EXCEPT !.pc = "admitted"]]
  /\ UNCHANGED vaults

\* the request of gate g passed both checks and is for route op: the handler goes on
Admitted(g, op) ==
  /\ gate[g].pc = "admitted" /\ gate[g].op = op
  /\ gate' = [gate EXCEPT ![g] = IdleGate]
  /\ UNCHANGED vaults

\* The continuations after `await assertVaultAccess(...)` of the eight routes.
AdmitPush(g, h, b) == Admitted(g, "push") /\ PushStart(h, gate[g].vaultId, b)
AdmitPull(g, p, since, limit, d) == Admitted(g, "pull") /\ PullStart(p, gate[g].vaultId, since, limit, d)
AdmitRealtime(g, c, since) == Admitted(g, "realtime") /\ RtOpen(c, gate[g].vaultId, since)
AdmitInit(g, r, h, size, chunkCount) == Admitted(g, "init") /\ InitStart(r, h, size, chunkCount)
AdmitPutChunk(g, r, h, index, chunkHash, size, text) ==
  Admitted(g, "putChunk") /\ PutStart(r, h, index, chunkHash, size, text)
AdmitGetManifest(g, r, h) == Admitted(g, "getManifest") /\ ManifestStart(r, h)
AdmitGetChunk(g, r, h, index) == Admitted(g, "getChunk") /\ GetChunkStart(r, h, index)
AdmitCommit(g, r, h, bodyHash, expectedChunkCount, expectedSize) ==
  Admitted(g, "commit") /\ CommitStart(r, h, bodyHash, expectedChunkCount, expectedSize)

(***************************************************************************)
(* GET /v1/vaults/:vaultId/realtime: authentication and access checks on   *)
(* the socket.                                                             *)
(***************************************************************************)
\* resolveAuthContext returned null: no bearer token, or an invalid one
NoAuth == [userId |-> "none", scopes |-> {}]

\* The websocket is open and the handler awaits resolveAuthContext.
RtConnect(c, a, v, since) ==
  /\ conn[c].pc = "new"
  /\ conn' = [conn EXCEPT ![c] = [NewConn EXCEPT !.pc = "auth", !.vaultId = v, !.since = since,
                                                 !.readyState = 1, !.auth = a]]
  /\ UNCHANGED << op_log, pending, nextSeq, sync_cursors, handler, puller, listeners >>

\* variant: the envelope is sent and the socket is left open
sendRealtimeErrorNoClose(cr, code) ==
  [cr EXCEPT !.pc = "rejected",
             !.sent = IF cr.readyState = 1 THEN Append(@, [type |-> "error", code |-> code]) ELSE @]

\* sendRealtimeError: socket.send({type: "error", code, ...}), socket.close(). A
\* send on a socket that is no longer open sends nothing; close() leaves an open
\* socket in CLOSING (2).
sendRealtimeError(cr, code) ==
  [cr EXCEPT !.pc = "rejected",
             !.sent = IF cr.readyState = 1 THEN Append(@, [type |-> "error", code |-> code]) ELSE @,
             !.readyState = IF cr.readyState = 1 THEN 2 ELSE @]

\* The continuation after `await resolveAuthContext(...)`: without a principal
\* UNAUTHORIZED, without the read scope FORBIDDEN, else the handler awaits
\* assertVaultAccess.
RtAuth(c) ==
  /\ conn[c].pc = "auth"
  /\ conn' = [conn EXCEPT ![c] =
       IF conn[c].auth = NoAuth THEN sendRealtimeError(conn[c], "UNAUTHORIZED")
       ELSE IF ~ requireScope("read", conn[c].auth.scopes) THEN sendRealtimeError(conn[c], "FORBIDDEN")
       ELSE [conn[c] EXCEPT !.pc = "access"]]
  /\ UNCHANGED << op_log, pending, nextSeq, sync_cursors, handler, puller, listeners >>

\* The continuation after `await assertVaultAccess(...)`: VAULT_NOT_FOUND, or the
\* handler goes on to the backlog query.
RtAccess(c) ==
  /\ conn[c].pc = "access"
  /\ conn' = [conn EXCEPT ![c] =
       IF ~ assertVaultAccess(conn[c].vaultId, conn[c].auth.userId)
       THEN sendRealtimeError(conn[c], "VAULT_NOT_FOUND")
       ELSE [conn[c] EXCEPT !.pc = "backlog"]]
  /\ UNCHANGED << op_log, pending, nextSeq, sync_cursors, handler, puller, listeners >>

\* The client has the error response; the slot is free again.
GateReturn(g) ==
  /\ gate[g].pc = "done"
  /\ gate' = [gate EXCEPT ![g] = IdleGate]
  /\ UNCHANGED vaults

(***************************************************************************)
(* The pull loop of the headless client: pullAndApplyUntilIdle.            *)
(***************************************************************************)
\* The caller starts the loop on vault v with state.cursor = c.
LoopStart(v, c, limit) ==
  /\ loop.pc = "idle"
  /\ loop' = [IdleLoop EXCEPT !.pc = "pull", !.vaultId = v, !.start = c, !.cursor = c, !.limit = limit]
  /\ UNCHANGED << loopLog, op_log, pending, nextSeq, sync_cursors, handler, puller, conn, listeners >>

\* pullOnce(baseUrl, vaultId, token, state.cursor, state.deviceId): the request
\* reaches the pull handler
LoopPull(p, d) ==
  /\ loop.pc = "pull"
  /\ PullStart(p, loop.vaultId, loop.cursor, loop.limit, d)
  /\ loop' = [loop EXCEPT !.pc = "await"]
  /\ loopLog' = op_log

SeqsOf(ops) == [i \in 1..Len(ops) |-> ops[i].seq]

\* The response arrives: break when response.ops is empty, else applyRemoteOps and
\* state.cursor = response.watermark.
LoopResponse(p) ==
  /\ loop.pc = "await"
  /\ PullReturn(p)
  /\ loop' = IF Len(puller[p].ops) = 0
             THEN [loop EXCEPT !.pc = "caughtUp"]
             ELSE [loop EXCEPT !.pc = "pull", !.applied = @ \o SeqsOf(puller[p].ops),
                               !.cursor = puller[p].watermark]
  /\ UNCHANGED loopLog

(***************************************************************************)
(* SyncEngine.pullOnce of the plugin.                                      *)
(***************************************************************************)
\* since = stateStore.getCursor(vaultId); response = await transport.pull(...)
EnginePull(response) ==
  /\ engine.pc = "idle"
  /\ engine' = [engine EXCEPT !.pc = "apply", !.since = engine.cursor, !.response = response,
                               !.idx = 1, !.calls = << >>]

\* variant: the cursor is stored op by op, as the realtime listener does
EngineApplyStoresCursor(throws) ==
  /\ engine.pc = "apply"
  /\ engine.idx <= Len(engine.response.ops)
  /\ LET op == engine.response.ops[engine.idx]
         callback == applyRemoteOp(op.opType, op.payload)
     IN  /\ throws => callback # "none"
         /\ engine' = [engine EXCEPT
               !.calls = IF callback = "none" THEN @
                         ELSE Append(@, [callback |-> callback, seq |-> op.seq]),
               !.cursor = op.seq,
               !.idx = IF throws THEN @ ELSE @ + 1,
               !.pc = IF throws THEN "failed" ELSE @]

\* One iteration of `for (const op of response.ops) await this.applyRemoteOp(...)`.
\* The callback may throw: the rejection leaves the loop and pullOnce.
EngineApply(throws) ==
  /\ engine.pc = "apply"
  /\ engine.idx <= Len(engine.response.ops)
  /\ LET op == engine.response.ops[engine.idx]
         callback == applyRemoteOp(op.opType, op.payload)
     IN  /\ throws => callback # "none"
         /\ engine' = [engine EXCEPT
               !.calls = IF callback = "none" THEN @
                         ELSE Append(@, [callback |-> callback, seq |-> op.seq]),
               !.idx = IF throws THEN @ ELSE @ + 1,
               !.pc = IF throws THEN "failed" ELSE @]

\* await this.stateStore.setCursor(vaultId, response.watermark)
EngineSetCursor ==
  /\ engine.pc = "apply"
  /\ engine.idx > Len(engine.response.ops)
  /\ engine' = [engine EXCEPT !.cursor = engine.response.watermark, !.pc = "done"]

\* pullOnce has settled (resolved or rejected); the engine may pull again.
EngineReturn ==
  /\ engine.pc \in {"done", "failed"}
  /\ engine' = [engine EXCEPT !.pc = "idle"]

(***************************************************************************)
(* Calls of chunkBuffer and joinChunks.                                    *)
(***************************************************************************)
\* chunkBuffer(buffer, chunkSizeBytes): throws when chunkSizeBytes <= 0
ChunkBufferCall(buffer, chunkSizeBytes) ==
  /\ chunking.pc = "idle"
  /\ chunking' = IF chunkSizeBytes <= 0
                 THEN [IdleChunking EXCEPT !.pc = "thrown", !.buffer = buffer,
                                           !.chunkSizeBytes = chunkSizeBytes]
                 ELSE [IdleChunking EXCEPT !.pc = "chunked", !.buffer = buffer,
                                           !.chunkSizeBytes = chunkSizeBytes,
                                           !.chunks = chunkBuffer(buffer, chunkSizeBytes)]

\* joinChunks(chunks), the chunks of the call before passed in the order f
JoinChunksCall(f) ==
  /\ chunking.pc = "chunked"
  /\ LET given == [i \in 1..Len(chunking.chunks) |-> chunking.chunks[f[i]]]
     IN  chunking' = [chunking EXCEPT !.pc = "joined", !.given = given, !.joined = joinChunks(given)]

\* The caller is done with the results.
ChunkingReturn ==
  /\ chunking.pc \in {"thrown", "joined"}
  /\ chunking' = IdleChunking

(***************************************************************************)
(* SyncOpBuilder.fromVaultEvent. The field returned keeps the ops in the   *)
(* order the calls returned them.                                          *)
(***************************************************************************)
\* variant: the op carries the clock read before the increment
fromVaultEventStaleClock(event) ==
  /\ Len(builder.returned) < MaxEvents
  /\ LET nextClock == builder.logicalClock + 1
         op == [deviceId |-> builder.deviceId, path |-> event.path,
                opType |-> inferOpType(event), logicalClock |-> builder.logicalClock]
     IN  builder' = [builder EXCEPT !.logicalClock = nextClock, !.returned = Append(@, op)]

\* fromVaultEvent(event): this.logicalClock += 1, then the op with that clock
fromVaultEvent(event) ==
  /\ Len(builder.returned) < MaxEvents
  /\ LET nextClock == builder.logicalClock + 1
         op == [deviceId |-> builder.deviceId, path |-> event.path,
                opType |-> inferOpType(event), logicalClock |-> nextClock]
     IN  builder' = [builder EXCEPT !.logicalClock = nextClock, !.returned = Append(@, op)]

(***************************************************************************)
(* SyncEngine.handleVaultEvent and flushOutbox. Flush f sends its push to  *)
(* push handler f of the server.                                           *)
(***************************************************************************)
\* handleVaultEvent: buildOperation, addOutboxOps([op]); the flushOutbox it awaits
\* next is a flush that starts
HandleVaultEvent ==
  /\ plugin.built < Len(PluginOps)
  /\ plugin' = [plugin EXCEPT !.built = @ + 1, !.outbox = Append(@, PluginOps[plugin.built + 1])]
  /\ UNCHANGED flush

\* flushOutbox (after a vault event, or from the periodic sync): pending =
\* peekOutbox(maxBatchSize), return when empty; cursor = getCursor; transport.push
FlushStart(f) ==
  /\ flush[f].pc = "idle"
  /\ peekOutbox(plugin.outbox, maxBatchSize) # << >>
  /\ flush' = [flush EXCEPT ![f] = [IdleFlush EXCEPT !.pc = "sent", !.cursor = plugin.cursor,
                                       !.pending = peekOutbox(plugin.outbox, maxBatchSize)]]
  /\ UNCHANGED plugin

\* The request reaches the push handler.
FlushArrive(f, v) ==
  /\ flush[f].pc = "sent"
  /\ PushStart(f, v, [deviceId |-> "d1", cursor |-> flush[f].cursor, ops |-> flush[f].pending])
  /\ flush' = [flush EXCEPT ![f].pc = "await"]
  /\ UNCHANGED plugin

\* transport.push rejects before the request reached the server: catch,
\* retryWithBackoff, return.
FlushNotSent(f) ==
  /\ flush[f].pc = "sent"
  /\ flush' = [flush EXCEPT ![f] = IdleFlush]
  /\ UNCHANGED plugin

\* The server answered 500, or the response of a finished push never arrived:
\* transport.push rejects; catch, retryWithBackoff, return.
FlushFailed(f) ==
  /\ flush[f].pc = "await"
  /\ PushFailedReturn(f) \/ PushReturn(f)
  /\ flush' = [flush EXCEPT ![f] = IdleFlush]
  /\ UNCHANGED plugin

\* variant: the whole outbox is cleared on success
FlushAckAll(f) ==
  /\ flush[f].pc = "await"
  /\ handler[f].pc = "done"
  /\ PushReturn(f)
  /\ plugin' = [plugin EXCEPT !.outbox = << >>]
  /\ flush' = [flush EXCEPT ![f].pc = "setCursor", ![f].acknowledgedSeq = handler[f].acknowledgedSeq]

\* The response arrived: ackOutbox(pending.map(op => op.idempotencyKey)).
FlushAck(f) ==
  /\ flush[f].pc = "await"
  /\ handler[f].pc = "done"
  /\ PushReturn(f)
  /\ plugin' = [plugin EXCEPT !.outbox = ackOutbox(@, flush[f].pending)]
  /\ flush' = [flush EXCEPT ![f].pc = "setCursor", ![f].acknowledgedSeq = handler[f].acknowledgedSeq]

\* setCursor(vaultId, response.acknowledgedSeq)
FlushSetCursor(f) ==
  /\ flush[f].pc = "setCursor"
  /\ plugin' = [plugin EXCEPT !.cursor = flush[f].acknowledgedSeq]
  /\ flush' = [flush EXCEPT ![f] = IdleFlush]

(***************************************************************************)
(* SyncEngine.pullOnce. The pull goes to pull handler p of the server.     *)
(***************************************************************************)
\* since = getCursor(vaultId); transport.pull(vaultId, since, deviceId): no limit
PluginPullStart(p) ==
  /\ plugin.pull.pc = "idle"
  /\ PullStart(p, "v1", plugin.cursor, NoLimit, "d1")
  /\ plugin' = [plugin EXCEPT !.pull.pc = "await"]
  /\ UNCHANGED flush

\* the response arrives
PluginPullResponse(p) ==
  /\ plugin.pull.pc = "await"
  /\ PullReturn(p)
  /\ plugin' = [plugin EXCEPT !.pull = [pc |-> "apply", ops |-> puller[p].ops,
                                         watermark |-> puller[p].watermark, idx |-> 1]]
  /\ UNCHANGED flush

\* for (const op of response.ops) await this.applyRemoteOp(op.opType, op.payload)
PluginPullApply ==
  /\ plugin.pull.pc = "apply"
  /\ plugin.pull.idx <= Len(plugin.pull.ops)
  /\ plugin' = [plugin EXCEPT !.applied = Append(@, plugin.pull.ops[plugin.pull.idx].seq),
                               !.pull.idx = @ + 1]
  /\ UNCHANGED flush

\* setCursor(vaultId, response.watermark)
PluginPullSetCursor ==
  /\ plugin.pull.pc = "apply"
  /\ plugin.pull.idx > Len(plugin.pull.ops)
  /\ plugin' = [plugin EXCEPT !.cursor = plugin.pull.watermark, !.pull = IdlePluginPull]
  /\ UNCHANGED flush

(***************************************************************************)
(* SyncEngine.handleVaultEvent for a binary file: buildOperation's init,   *)
(* upload loop and commit go to blob handler r of the server.              *)
(***************************************************************************)
\* A query or the chunk store of a blob route rejects: the error handler answers
\* 500 INTERNAL_ERROR.
BlobStoreError(r) ==
  /\ blobReq[r].pc \notin {"idle", "done"}
  /\ blobReq' = [blobReq EXCEPT ![r].pc = "done", ![r].res = [code |-> "INTERNAL_ERROR"]]
  /\ UNCHANGED << blobs, blob_chunks, files, clock >>

\* a create or modify event of a non-markdown file with binaryContentBase64:
\* planUpload, transport.initBlob
UploadInit(r) ==
  /\ upload.pc = "idle"
  /\ upload.events < MaxBinaryEvents
  /\ InitStart(r, Plan.hash, Plan.size, Plan.chunkCount)
  /\ upload' = [NewUpload EXCEPT !.pc = "init", !.events = upload.events + 1]
  /\ UNCHANGED pluginProg

\* initBlob resolved: missing = new Set(init.missingIndices)
UploadInitResponse(r) ==
  /\ upload.pc = "init"
  /\ blobReq[r].pc = "done" /\ blobReq[r].res.code = "ok"
  /\ BlobReturn(r)
  /\ upload' = [upload EXCEPT !.pc = "chunks", !.missing = SeqToSet(blobReq[r].res.missingIndices),
                               !.idx = 1, !.calls = << "init" >>]
  /\ UNCHANGED pluginProg

\* if (missing.size > 0 && !missing.has(chunk.index)) continue;
UploadsChunk(chunk) == ~ (upload.missing # {} /\ chunk.index \notin upload.missing)

\* the loop skips a chunk
UploadSkip ==
  /\ upload.pc = "chunks"
  /\ upload.idx <= Len(Plan.chunks)
  /\ ~ UploadsChunk(Plan.chunks[upload.idx])
  /\ upload' = [upload EXCEPT !.idx = @ + 1]
  /\ UNCHANGED pluginProg

\* transport.uploadBlobChunk(vaultId, plan.hash, chunk.index, {chunkHash, size, cipherTextBase64})
UploadPut(r) ==
  /\ upload.pc = "chunks"
  /\ upload.idx <= Len(Plan.chunks)
  /\ UploadsChunk(Plan.chunks[upload.idx])
  /\ LET chunk == Plan.chunks[upload.idx]
     IN  PutStart(r, Plan.hash, IndexParam(chunk.index), chunk.chunkHash, chunk.size,
                  chunk.cipherTextBase64)
  /\ upload' = [upload EXCEPT !.pc = "put"]
  /\ UNCHANGED pluginProg

\* uploadBlobChunk resolved: the next chunk
UploadPutResponse(r) ==
  /\ upload.pc = "put"
  /\ blobReq[r].pc = "done" /\ blobReq[r].res.code = "ok"
  /\ BlobReturn(r)
  /\ upload' = [upload EXCEPT !.pc = "chunks", !.idx = @ + 1,
                               !.calls = Append(@, IndexParam(Plan.chunks[upload.idx].index))]
  /\ UNCHANGED pluginProg

\* after the loop: transport.commitBlob(vaultId, plan.hash, plan.chunkCount, plan.size)
UploadCommit(r) ==
  /\ upload.pc = "chunks"
  /\ upload.idx > Len(Plan.chunks)
  /\ CommitStart(r, Plan.hash, Plan.hash, Plan.chunkCount, Plan.size)
  /\ upload' = [upload EXCEPT !.pc = "commit"]
  /\ UNCHANGED pluginProg

\* variant: the op is enqueued whatever the commit answered
UploadCommitResponseAny(r) ==
  /\ upload.pc = "commit"
  /\ blobReq[r].pc = "done"
  /\ BlobReturn(r)
  /\ upload' = [upload EXCEPT !.pc = "idle", !.calls = Append(@, "commit")]
  /\ plugin' = [plugin EXCEPT !.outbox = Append(@, BlobRefOp(upload.events))]
  /\ UNCHANGED flush

\* commitBlob resolved: buildOperation returns the blob_ref op and
\* handleVaultEvent adds it to the outbox
UploadCommitResponse(r) ==
  /\ upload.pc = "commit"
  /\ blobReq[r].pc = "done" /\ blobReq[r].res.code = "ok"
  /\ BlobReturn(r)
  /\ upload' = [upload EXCEPT !.pc = "idle", !.calls = Append(@, "commit")]
  /\ plugin' = [plugin EXCEPT !.outbox = Append(@, BlobRefOp(upload.events))]
  /\ UNCHANGED flush

\* initBlob, uploadBlobChunk or commitBlob rejects (an error status, or the
\* response never arrives): buildOperation throws, handleVaultEvent throws
UploadFailed(r) ==
  /\ upload.pc \in {"init", "put", "commit"}
  /\ blobReq[r].pc = "done"
  /\ BlobReturn(r)
  /\ upload' = [upload EXCEPT !.pc = "idle"]
  /\ UNCHANGED pluginProg

(***************************************************************************)
(* ObsyncPlugin: the steps of connectAndStart, disconnect, and the events  *)
(* of the sockets and timers.                                              *)
(***************************************************************************)
ObsyncStep(o) ==
  /\ WithinBounds(o)
  /\ obsync' = o

\* connectAndStart up to its first await: disconnect(), resolveToken()
ConnectAndStart(c) ==
  /\ obsync.calls[c] = "idle"
  /\ obsync.connects < MaxConnects
  /\ ObsyncStep([disconnect(obsync) EXCEPT !.calls[c] = "resolveToken", !.connects = @ + 1,
                                           !.disconnected = FALSE, !.event = NoEvent])

\* the token resolved: this.syncEngine = new SyncEngine(...); initialize()
ConnectNewEngine(c) ==
  /\ obsync.calls[c] = "resolveToken"
  /\ ObsyncStep([obsync EXCEPT !.realtimeSocket = Append(@, 0),
                               !.syncEngine = Len(obsync.realtimeSocket) + 1,
                               !.calls[c] = "initialize", !.event = NoEvent])

\* initialize() or flushOutbox() resolved: the next call on this.syncEngine, a
\* TypeError caught when the field is null
ConnectNextCall(c) ==
  /\ obsync.calls[c] \in {"initialize", "flushOutbox"}
  /\ ObsyncStep([obsync EXCEPT
        !.calls[c] = IF obsync.syncEngine = 0 THEN "idle"
                     ELSE IF @ = "initialize" THEN "flushOutbox" ELSE "pullOnce",
        !.event = NoEvent])

\* an awaited call rejects: catch
ConnectRejected(c) ==
  /\ obsync.calls[c] \in {"resolveToken", "initialize", "flushOutbox", "pullOnce"}
  /\ ObsyncStep([obsync EXCEPT !.calls[c] = "idle", !.event = NoEvent])

\* pullOnce() resolved: startPeriodicPullLoop(); with settings.realtimeEnabled,
\* shouldReconnectRealtime = true and startRealtime()
ConnectFinish(c, realtimeEnabled) ==
  /\ obsync.calls[c] = "pullOnce"
  /\ LET a == startPeriodicPullLoop(obsync)
         b == IF realtimeEnabled
              THEN startRealtime([a EXCEPT !.shouldReconnectRealtime = TRUE])
              ELSE a
     IN  ObsyncStep([b EXCEPT !.calls[c] = "idle", !.event = NoEvent])

\* the disconnect command, or onunload
Disconnect ==
  /\ obsync.connects > 0
  /\ ObsyncStep([disconnect(obsync) EXCEPT !.event = NoEvent])

\* the open event of socket s: onOpen, onRealtimeOpen
SocketOpen(s) ==
  /\ obsync.sockets[s].readyState = "CONNECTING"
  /\ ObsyncStep(clearReconnectTimer([obsync EXCEPT !.sockets[s].readyState = "OPEN",
                                                    !.reconnectAttempt = 0,
                                                    !.event = [type |-> "open", socket |-> s]]))

\* the error event of socket s: onError, onRealtimeError
SocketError(s) ==
  /\ obsync.sockets[s].readyState # "CLOSED"
  /\ ObsyncStep(IF obsync.shouldReconnectRealtime
                THEN scheduleRealtimeReconnect([obsync EXCEPT !.event = [type |-> "error", socket |-> s]])
                ELSE [obsync EXCEPT !.event = [type |-> "error", socket |-> s]])

\* the close event of socket s (closed by either side): the engine's onClose
\* sets its realtimeSocket to null, then onRealtimeClose
SocketClose(s) ==
  /\ obsync.sockets[s].readyState # "CLOSED"
  /\ LET a == [obsync EXCEPT !.sockets[s].readyState = "CLOSED",
                             !.realtimeSocket[obsync.sockets[s].engine] = 0,
                             !.event = [type |-> "close", socket |-> s]]
     IN  ObsyncStep(IF a.shouldReconnectRealtime THEN scheduleRealtimeReconnect(a) ELSE a)

\* reconnect timer t fires
ReconnectTimerFires(t) ==
  /\ t \in obsync.timeouts
  /\ LET a == [obsync EXCEPT !.timeouts = @ \ {t}, !.reconnectTimer = 0, !.event = NoEvent]
     IN  ObsyncStep(IF a.syncEngine = 0 \/ ~ a.shouldReconnectRealtime THEN a ELSE startRealtime(a))

(***************************************************************************)
(* The headless worker's main loop. Its pull goes to pull handler p, its   *)
(* push to push handler h of the server.                                   *)
(***************************************************************************)
\* a file of the mirror is edited
LocalEdit ==
  /\ worker.edits < MaxEdits
  /\ worker' = [worker EXCEPT !.edits = @ + 1]

\* pullAndApplyUntilIdle: pullOnce(baseUrl, vaultId, token, state.cursor, state.deviceId)
WorkerPull(p) ==
  /\ worker.pc = "pull"
  /\ PullStart(p, "v1", worker.cursor, NoLimit, "d1")
  /\ worker' = [worker EXCEPT !.pc = "awaitPull", !.emptyPull = FALSE]

\* the pull response: break when it has no ops, else applyRemoteOps
WorkerPullResponse(p, localPushEnabled) ==
  /\ worker.pc = "awaitPull"
  /\ PullReturn(p)
  /\ worker' = IF Len(puller[p].ops) = 0
               THEN [worker EXCEPT !.pc = IF localPushEnabled THEN "push" ELSE "sleep",
                                   !.emptyPull = TRUE]
               ELSE [worker EXCEPT !.pc = "apply", !.idx = 1,
                                   !.response = [ops |-> puller[p].ops,
                                                 watermark |-> puller[p].watermark]]

\* pullOnce throws (the response is not ok): the main loop catches and sleeps
WorkerPullFailed(p) ==
  /\ worker.pc = "awaitPull"
  /\ PullReturn(p)
  /\ worker' = [worker EXCEPT !.pc = "sleep"]

\* applyRemoteOps: the next op is applied to the mirror, or the throw for an
\* md_update without yUpdateBase64, which the main loop catches
WorkerApply ==
  /\ worker.pc = "apply"
  /\ worker.idx <= Len(worker.response.ops)
  /\ LET op == worker.response.ops[worker.idx]
     IN  worker' = IF Appliable(op)
                   THEN [worker EXCEPT !.applied = @ \cup {op.seq}, !.idx = @ + 1,
                                       !.synced = @ \cup SyncedBy(op)]
                   ELSE [worker EXCEPT !.pc = "sleep"]

\* state.cursor = response.watermark; saveState; the next pull
WorkerSetCursor ==
  /\ worker.pc = "apply"
  /\ worker.idx > Len(worker.response.ops)
  /\ worker' = [worker EXCEPT !.cursor = worker.response.watermark, !.pc = "pull"]

\* await sleep(pollIntervalMs): the next iteration of the main loop
WorkerSleep ==
  /\ worker.pc = "sleep"
  /\ worker' = [worker EXCEPT !.pc = "pull"]

\* pushLocalChanges: scanMirror, buildLocalPushPlan; nothing to push
WorkerNoChanges ==
  /\ worker.pc = "push"
  /\ Changed(worker) = << >>
  /\ worker' = [worker EXCEPT !.pc = "sleep"]

\* pushLocalChanges: scanMirror, buildLocalPushPlan; cursor = state.cursor, offset = 0
WorkerPlan ==
  /\ worker.pc = "push"
  /\ Changed(worker) # << >>
  /\ worker.plans < MaxPlans
  /\ worker' = [worker EXCEPT !.pc = "batch", !.plans = @ + 1,
                               !.ops = buildLocalPushPlan(worker, worker.plans + 1),
                               !.offset = 0, !.pushCursor = worker.cursor]

\* while (offset < ops.length): pushBatch(..., cursor, ops.slice(offset, offset + batchSize))
WorkerPushBatch(h) ==
  /\ worker.pc = "batch"
  /\ worker.offset < Len(worker.ops)
  /\ PushStart(h, "v1", [deviceId |-> "d1", cursor |-> worker.pushCursor,
                         ops |-> SubSeq(worker.ops, worker.offset + 1,
                                        Min(Len(worker.ops), worker.offset + batchSize))])
  /\ worker' = [worker EXCEPT !.pc = "awaitPush", !.handler = h]

\* pushBatch resolved: cursor = result.acknowledgedSeq; offset += batch.length
WorkerBatchResponse(h) ==
  /\ worker.pc = "awaitPush" /\ worker.handler = h
  /\ handler[h].pc = "done"
  /\ PushReturn(h)
  /\ worker' = [worker EXCEPT !.pc = "batch", !.pushCursor = handler[h].acknowledgedSeq,
                               !.offset = @ + Len(handler[h].body.ops), !.handler = 0]

\* pushBatch throws for an error status: the main loop catches and sleeps; state
\* is as before the plan
WorkerPushFailed(h) ==
  /\ worker.pc = "awaitPush" /\ worker.handler = h
  /\ PushFailedReturn(h)
  /\ worker' = [worker EXCEPT !.pc = "sleep", !.handler = 0]

\* fetch rejects (the connection is lost) while the request is with the server,
\* or its response is on the way: the main loop catches and sleeps
WorkerPushAborted(h) ==
  /\ worker.pc = "awaitPush" /\ worker.handler = h
  /\ worker' = [worker EXCEPT !.pc = "sleep", !.handler = 0]

\* a push handler whose client is another device, or no longer waits, returns
PushReturnToOther(h) ==
  /\ worker.handler # h
  /\ PushReturn(h) \/ PushFailedReturn(h)

\* after the loop: state.cursor = cursor; fileHashes, docs and logicalClock of
\* nextState; saveState
WorkerPushDone ==
  /\ worker.pc = "batch"
  /\ worker.offset >= Len(worker.ops)
  /\ worker' = [worker EXCEPT !.pc = "sleep", !.cursor = worker.pushCursor,
                               !.logicalClock = @ + Len(worker.ops),
                               !.synced = @ \cup { worker.ops[i].payload.path[2] :
                                                    i \in 1..Len(worker.ops) }]

\* another device pushes batch b, or sends it again
OtherPush(h, b) ==
  /\ ~ worker.stopped
  /\ Len(SelectSeq(worker.others, LAMBDA o : o = b)) < MaxOtherPushes
  /\ (worker.others # << >>) => (worker.others[Len(worker.others)] = b \/ b \notin SeqToSet(worker.others))
  /\ PushStart(h, "v1", b)
  /\ worker' = [worker EXCEPT !.others = Append(@, b)]

\* the other devices stop pushing
OtherStop ==
  /\ ~ worker.stopped
  /\ worker' = [worker EXCEPT !.stopped = TRUE]

(***************************************************************************)
(* History. Each formula gives the next value of one history variable as a *)
(* function of the step the program takes.                                 *)
(***************************************************************************)
\* firstAck: the response of the first push of a body to a vault that completes
RecordFirstAck ==
  firstAck' = [k \in Vaults \X Batches |->
     IF /\ firstAck[k] = NoAck
        /\ \E h \in Handlers : /\ handler[h].pc = "done" /\ handler'[h].pc = "idle"
                               /\ k = <<handler[h].vaultId, handler[h].body>>
     THEN LET h == CHOOSE h \in Handlers : /\ handler[h].pc = "done" /\ handler'[h].pc = "idle"
                                           /\ k = <<handler[h].vaultId, handler[h].body>>
          IN  handler[h].acknowledgedSeq
     ELSE firstAck[k]]

Starts(h) == handler[h].pc = "idle" /\ handler'[h].pc = "insert"

\* a push handler of vault v whose slot is taken (running, or answered and not
\* yet returned)
PushActive(h, v) == handler[h].pc # "idle" /\ handler[h].vaultId = v

\* pushHist: taken when a push handler starts; alone falls when another push to
\* the same vault starts meanwhile
RecordPushHist ==
  pushHist' = [h \in Handlers |->
     IF Starts(h)
     THEN [prevAck |-> firstAck[<<handler'[h].vaultId, handler'[h].body>>],
           prevLatest |-> LatestSeq(op_log, handler'[h].vaultId),
           alone |-> ~ \E o \in Handlers \ {h} : PushActive(o, handler'[h].vaultId)]
     ELSE IF /\ PushActive(h, handler[h].vaultId)
             /\ \E o \in Handlers \ {h} : Starts(o) /\ handler'[o].vaultId = handler[h].vaultId
     THEN [pushHist[h] EXCEPT !.alone = FALSE]
     ELSE IF handler'[h].pc = "idle" THEN NoPushHist
     ELSE pushHist[h]]

\* pushBase: taken when a push handler starts, dropped when its slot is free again
RecordPushBase ==
  pushBase' = [h \in Handlers |->
     IF Starts(h)
     THEN [op_log |-> op_log,
           cursor |-> sync_cursors[<<handler'[h].body.deviceId, handler'[h].vaultId>>]]
     ELSE IF handler'[h].pc = "idle" THEN NoBase
     ELSE pushBase[h]]

\* observedMax: the highest seq a pull or a backlog query has returned
RecordObserved ==
  observedMax' = [v \in Vaults |->
     LET pulled == { puller'[p].watermark : p \in { p \in Pullers :
                       /\ puller[p].pc = "select" /\ puller'[p].pc # "select"
                       /\ puller[p].vaultId = v /\ Len(puller'[p].ops) > 0 } }
         backlogged == { conn'[c].backlog[Len(conn'[c].backlog)].seq : c \in { c \in Conns :
                       /\ conn[c].pc = "backlog" /\ conn'[c].pc # "backlog"
                       /\ conn[c].vaultId = v /\ Len(conn'[c].backlog) > 0 } }
         seen == pulled \cup backlogged \cup {observedMax[v]}
     IN  CHOOSE s \in seen : \A t \in seen : t <= s]

(***************************************************************************)
(* Specifications. Each takes the steps of some of the handlers, drawing   *)
(* the requests from the sets above, and records the history its           *)
(* properties read.                                                        *)
(***************************************************************************)
\* the key of the put-chunk or get-chunk request of blob handler r
KeyOf(rq) == << rq.req.hash, NumberOf(rq.req.index) >>

PutStarts(r, k) ==
  /\ blobReq[r].pc = "idle" /\ blobReq'[r].kind = "put" /\ KeyOf(blobReq'[r]) = k

PutAnswered(r, k) ==
  /\ blobReq[r].pc = "upsert" /\ blobReq'[r].res.code = "ok" /\ KeyOf(blobReq[r]) = k

\* a put-chunk of key k that has passed the hash check and is not yet answered
PutInFlight(r, k) ==
  /\ blobReq[r].kind = "put" /\ blobReq[r].pc \in {"write", "upsert"} /\ KeyOf(blobReq[r]) = k

\* lastPut: set when a put-chunk is answered with persisted: true while no other
\* put-chunk of the key is in flight, cleared when a put-chunk of the key starts
RecordLastPut ==
  lastPut' = [k \in ChunkKeys |->
     IF \E r \in BlobHandlers : PutAnswered(r, k)
     THEN LET r == CHOOSE r \in BlobHandlers : PutAnswered(r, k)
          IN  IF \E o \in BlobHandlers \ {r} : PutInFlight(o, k) THEN NoPut
              ELSE [bytes |-> Base64Decode(blobReq[r].req.cipherTextBase64),
                    chunkHash |-> blobReq[r].req.chunkHash]
     ELSE IF \E r \in BlobHandlers : PutStarts(r, k) THEN NoPut
     ELSE lastPut[k]]

\* getClean: taken when a get-chunk starts, falls when a put-chunk of its key starts
RecordGetClean ==
  getClean' = [r \in BlobHandlers |->
     IF blobReq[r].pc = "idle" /\ blobReq'[r].kind = "getChunk"
     THEN lastPut[KeyOf(blobReq'[r])] # NoPut
     ELSE IF blobReq'[r].kind # "getChunk" THEN FALSE
     ELSE IF \E o \in BlobHandlers : PutStarts(o, KeyOf(blobReq[r])) THEN FALSE
     ELSE getClean[r]]

\* a step of the sync routes leaves the blob routes' state as it is, and conversely
NoBlobStep == UNCHANGED << blobProg, blobHist >>
NoSyncStep == UNCHANGED << prog, hist >>
NoGateStep == UNCHANGED << gateProg, cliProg >>
HistBlob == RecordLastPut /\ RecordGetClean /\ NoSyncStep /\ NoGateStep
HistBlobNone == UNCHANGED blobHist /\ NoSyncStep /\ NoGateStep

HistPush == RecordFirstAck /\ RecordPushHist /\ UNCHANGED observedMax /\ NoBlobStep /\ NoGateStep
HistRealtime == RecordObserved /\ UNCHANGED << firstAck, pushHist >> /\ NoBlobStep /\ NoGateStep
HistNone == UNCHANGED hist /\ NoBlobStep /\ NoGateStep

\* concurrent pushes to all vaults
NextPush ==
  \/ \E h \in Handlers, v \in Vaults, b \in Batches : PushStart(h, v, b) /\ HistPush
  \/ \E h \in Handlers : DbInsert(h) /\ HistPush
  \/ \E h \in Handlers : DbCommit(h) /\ HistPush
  \/ \E h \in Handlers : PushInserted(h) /\ HistPush
  \/ \E h \in Handlers : PushCoalesced(h) /\ HistPush
  \/ \E h \in Handlers : PushCursor(h) /\ HistPush
  \/ \E h \in Handlers : PushReturn(h) /\ HistPush

SpecPush == Init /\ [][NextPush]_vars

\* the handler slot of the specifications that run one push at a time
OneHandler == {1}

\* pushes, one at a time, concurrent with pulls
NextPull ==
  \/ \E h \in OneHandler, v \in Vaults, b \in Batches : PushStart(h, v, b) /\ HistNone
  \/ \E h \in OneHandler : DbInsert(h) /\ HistNone
  \/ \E h \in OneHandler : DbCommit(h) /\ HistNone
  \/ \E h \in OneHandler : PushInserted(h) /\ HistNone
  \/ \E h \in OneHandler : PushCoalesced(h) /\ HistNone
  \/ \E h \in OneHandler : PushCursor(h) /\ HistNone
  \/ \E h \in OneHandler : PushReturn(h) /\ HistNone
  \/ \E p \in Pullers, v \in Vaults, s \in 0..MaxSince, l \in Limits, d \in PullDevices :
        PullStart(p, v, s, l, d) /\ HistNone
  \/ \E p \in Pullers : PullSelect(p) /\ HistNone
  \/ \E p \in Pullers : PullCursor(p) /\ HistNone
  \/ \E p \in Pullers : PullReturn(p) /\ HistNone

SpecPull == Init /\ [][NextPull]_vars

\* concurrent pushes and realtime connections
NextRealtime ==
  \/ \E h \in Handlers, v \in Vaults, b \in Batches : PushStart(h, v, b) /\ HistRealtime
  \/ \E h \in Handlers : DbInsert(h) /\ HistRealtime
  \/ \E h \in Handlers : DbCommit(h) /\ HistRealtime
  \/ \E h \in Handlers : PushInserted(h) /\ HistRealtime
  \/ \E h \in Handlers : PushCoalesced(h) /\ HistRealtime
  \/ \E h \in Handlers : PushCursor(h) /\ HistRealtime
  \/ \E h \in Handlers : PushReturn(h) /\ HistRealtime
  \/ \E c \in Conns, v \in Vaults, s \in 0..MaxSince : RtOpen(c, v, s) /\ HistRealtime
  \/ \E c \in Conns : RtBacklogSelect(c) /\ HistRealtime
  \/ \E c \in Conns : RtSubscribe(c) /\ HistRealtime
  \/ \E c \in Conns : RtClose(c) /\ HistRealtime

SpecRealtime == Init /\ [][NextRealtime]_vars

\* pushes, one at a time, concurrent with pulls (from 0, default limit) and with
\* realtime connections (from 0)
NextAll ==
  \/ \E h \in OneHandler, v \in Vaults, b \in Batches : PushStart(h, v, b) /\ HistNone
  \/ \E h \in OneHandler : DbInsert(h) /\ HistNone
  \/ \E h \in OneHandler : DbCommit(h) /\ HistNone
  \/ \E h \in OneHandler : PushInserted(h) /\ HistNone
  \/ \E h \in OneHandler : PushCoalesced(h) /\ HistNone
  \/ \E h \in OneHandler : PushCursor(h) /\ HistNone
  \/ \E h \in OneHandler : PushReturn(h) /\ HistNone
  \/ \E p \in Pullers, v \in Vaults, d \in PullDevices : PullStart(p, v, 0, NoLimit, d) /\ HistNone
  \/ \E p \in Pullers : PullSelect(p) /\ HistNone
  \/ \E p \in Pullers : PullCursor(p) /\ HistNone
  \/ \E p \in Pullers : PullReturn(p) /\ HistNone
  \/ \E c \in Conns, v \in Vaults : RtOpen(c, v, 0) /\ HistNone
  \/ \E c \in Conns : RtBacklogSelect(c) /\ HistNone
  \/ \E c \in Conns : RtSubscribe(c) /\ HistNone
  \/ \E c \in Conns : RtClose(c) /\ HistNone

SpecAll == Init /\ [][NextAll]_vars

\* one push handler and the whole life of a realtime connection: backlog,
\* subscription, keepalive, a peer that stops reading, close
NextConn ==
  \/ \E h \in OneHandler, v \in Vaults, b \in Batches : PushStart(h, v, b) /\ HistNone
  \/ \E h \in OneHandler : DbInsert(h) /\ HistNone
  \/ \E h \in OneHandler : DbCommit(h) /\ HistNone
  \/ \E h \in OneHandler : PushInserted(h) /\ HistNone
  \/ \E h \in OneHandler : PushCoalesced(h) /\ HistNone
  \/ \E h \in OneHandler : PushCursor(h) /\ HistNone
  \/ \E h \in OneHandler : PushReturn(h) /\ HistNone
  \/ \E c \in Conns, v \in Vaults, since \in 0..MaxSince : RtOpen(c, v, since) /\ HistNone
  \/ \E c \in Conns : RtBacklogSelect(c) /\ HistNone
  \/ \E c \in Conns : RtSubscribe(c) /\ HistNone
  \/ \E c \in Conns : RtKeepalive(c) /\ HistNone
  \/ \E c \in Conns : RtStall(c) /\ HistNone
  \/ \E c \in Conns : RtClose(c) /\ HistNone

SpecConn == Init /\ [][NextConn]_vars

\* concurrent uploads and commits: init, put-chunk of either index, commit with
\* every expectation, get-manifest
NextCommit ==
  \/ \E r \in BlobHandlers, h \in Hashes, n \in ChunkCounts : InitStart(r, h, BlobSize, n) /\ HistBlobNone
  \/ \E r \in BlobHandlers : InitInsert(r) /\ HistBlobNone
  \/ \E r \in BlobHandlers : InitSelect(r) /\ HistBlobNone
  \/ \E r \in BlobHandlers, h \in Hashes, i \in IndexParams, ch \in ChunkHashes, sz \in ChunkSizes :
        PutStart(r, h, i, ch, sz, Base64Encode("b1")) /\ HistBlobNone
  \/ \E r \in BlobHandlers : PutWrite(r) /\ HistBlobNone
  \/ \E r \in BlobHandlers : PutUpsert(r) /\ HistBlobNone
  \/ \E r \in BlobHandlers, h \in Hashes : ManifestStart(r, h) /\ HistBlobNone
  \/ \E r \in BlobHandlers : ManifestBlobSelect(r) /\ HistBlobNone
  \/ \E r \in BlobHandlers : ManifestChunksSelect(r) /\ HistBlobNone
  \/ \E r \in BlobHandlers, h \in Hashes, bh \in CommitHashes, n \in ExpectedCounts,
        sz \in ExpectedSizes : CommitStart(r, h, bh, n, sz) /\ HistBlobNone
  \/ \E r \in BlobHandlers : CommitCount(r) /\ HistBlobNone
  \/ \E r \in BlobHandlers : CommitUpdate(r) /\ HistBlobNone
  \/ \E r \in BlobHandlers : BlobReturn(r) /\ HistBlobNone

SpecCommit == Init /\ [][NextCommit]_vars

\* concurrent writes and reads of chunk 0 of a blob of one chunk: init, put-chunk
\* with every body, commit, get-manifest, get-chunk of either index
NextChunk ==
  \/ \E r \in BlobHandlers, h \in Hashes : InitStart(r, h, BlobSize, 1) /\ HistBlob
  \/ \E r \in BlobHandlers : InitInsert(r) /\ HistBlob
  \/ \E r \in BlobHandlers : InitSelect(r) /\ HistBlob
  \/ \E r \in BlobHandlers, h \in Hashes, ch \in ChunkHashes, sz \in ChunkSizes, t \in Base64Texts :
        PutStart(r, h, "0", ch, sz, t) /\ HistBlob
  \/ \E r \in BlobHandlers : PutWrite(r) /\ HistBlob
  \/ \E r \in BlobHandlers : PutUpsert(r) /\ HistBlob
  \/ \E r \in BlobHandlers, h \in Hashes : ManifestStart(r, h) /\ HistBlob
  \/ \E r \in BlobHandlers : ManifestBlobSelect(r) /\ HistBlob
  \/ \E r \in BlobHandlers : ManifestChunksSelect(r) /\ HistBlob
  \/ \E r \in BlobHandlers, h \in Hashes, i \in IndexParams : GetChunkStart(r, h, i) /\ HistBlob
  \/ \E r \in BlobHandlers : GetChunkSelect(r) /\ HistBlob
  \/ \E r \in BlobHandlers : GetChunkRead(r) /\ HistBlob
  \/ \E r \in BlobHandlers, h \in Hashes : CommitStart(r, h, h, 1, 1) /\ HistBlob
  \/ \E r \in BlobHandlers : CommitCount(r) /\ HistBlob
  \/ \E r \in BlobHandlers : CommitUpdate(r) /\ HistBlob
  \/ \E r \in BlobHandlers : BlobReturn(r) /\ HistBlob

SpecChunk == Init /\ [][NextChunk]_vars

\* The eight vault routes behind their access checks: one request handler of
\* each kind, requests of four principals to two vault ids, of which one may
\* exist. u1 creates vault v1; the id v2 never gets a vault. The clients send
\* one request at a time: a request arrives when no handler is at work.
GatePrincipals ==
  { [userId |-> "u1", scopes |-> {"read"}], [userId |-> "u1", scopes |-> {"write"}],
    [userId |-> "u1", scopes |-> {"admin"}], [userId |-> "u2", scopes |-> {"read", "write"}] }
GateBatches == { b \in Batches : Len(b.ops) = 1 }
OneBlobHandler == {1}
Quiet ==
  /\ \A h \in Handlers : handler[h].pc = "idle"
  /\ \A p \in Pullers : puller[p].pc = "idle"
  /\ \A c \in Conns : conn[c].pc \in {"new", "live"}
  /\ \A r \in BlobHandlers : blobReq[r].pc = "idle"
GateOnly == NoSyncStep /\ NoBlobStep /\ UNCHANGED cliProg
GateSync == UNCHANGED hist /\ NoBlobStep /\ UNCHANGED cliProg
GateBlob == UNCHANGED blobHist /\ NoSyncStep /\ UNCHANGED cliProg

NextGate ==
  \/ \E a \in GatePrincipals : VaultCreate(a, "v1") /\ GateOnly
  \/ \E g \in Gates, op \in Operations, a \in GatePrincipals, v \in Vaults :
        Quiet /\ GateStart(g, op, a, v) /\ GateOnly
  \/ \E g \in Gates : GateAccess(g) /\ GateOnly
  \/ \E g \in Gates : GateReturn(g) /\ GateOnly
  \/ \E g \in Gates, h \in OneHandler, b \in GateBatches : AdmitPush(g, h, b) /\ GateSync
  \/ \E h \in OneHandler : DbInsert(h) /\ HistNone
  \/ \E h \in OneHandler : DbCommit(h) /\ HistNone
  \/ \E h \in OneHandler : PushInserted(h) /\ HistNone
  \/ \E h \in OneHandler : PushCoalesced(h) /\ HistNone
  \/ \E h \in OneHandler : PushCursor(h) /\ HistNone
  \/ \E h \in OneHandler : PushReturn(h) /\ HistNone
  \/ \E g \in Gates, p \in Pullers : AdmitPull(g, p, 0, NoLimit, "d2") /\ GateSync
  \/ \E p \in Pullers : PullSelect(p) /\ HistNone
  \/ \E p \in Pullers : PullCursor(p) /\ HistNone
  \/ \E p \in Pullers : PullReturn(p) /\ HistNone
  \/ \E g \in Gates, c \in Conns : AdmitRealtime(g, c, 0) /\ GateSync
  \/ \E c \in Conns : RtBacklogSelect(c) /\ HistNone
  \/ \E c \in Conns : RtSubscribe(c) /\ HistNone
  \/ \E c \in Conns : RtClose(c) /\ HistNone
  \/ \E g \in Gates, r \in OneBlobHandler, h \in Hashes : AdmitInit(g, r, h, BlobSize, 1) /\ GateBlob
  \/ \E r \in OneBlobHandler : InitInsert(r) /\ HistBlobNone
  \/ \E r \in OneBlobHandler : InitSelect(r) /\ HistBlobNone
  \/ \E g \in Gates, r \in OneBlobHandler, h \in Hashes :
        AdmitPutChunk(g, r, h, "0", sha256Hex("b1"), 1, Base64Encode("b1")) /\ GateBlob
  \/ \E r \in OneBlobHandler : PutWrite(r) /\ HistBlobNone
  \/ \E r \in OneBlobHandler : PutUpsert(r) /\ HistBlobNone
  \/ \E g \in Gates, r \in OneBlobHandler, h \in Hashes : AdmitGetManifest(g, r, h) /\ GateBlob
  \/ \E r \in OneBlobHandler : ManifestBlobSelect(r) /\ HistBlobNone
  \/ \E r \in OneBlobHandler : ManifestChunksSelect(r) /\ HistBlobNone
  \/ \E g \in Gates, r \in OneBlobHandler, h \in Hashes : AdmitGetChunk(g, r, h, "0") /\ GateBlob
  \/ \E r \in OneBlobHandler : GetChunkSelect(r) /\ HistBlobNone
  \/ \E r \in OneBlobHandler : GetChunkRead(r) /\ HistBlobNone
  \/ \E g \in Gates, r \in OneBlobHandler, h \in Hashes : AdmitCommit(g, r, h, h, 1, 1) /\ GateBlob
  \/ \E r \in OneBlobHandler : CommitCount(r) /\ HistBlobNone
  \/ \E r \in OneBlobHandler : CommitUpdate(r) /\ HistBlobNone
  \/ \E r \in OneBlobHandler : BlobReturn(r) /\ HistBlobNone

SpecGate == Init /\ [][NextGate]_vars

\* the pull loop of a client of vault v1, from cursor 0 or 1, concurrent with
\* pushes to the vault
LoopLimits == {NoLimit, 1}
NoServerStep == NoSyncStep /\ NoBlobStep /\ UNCHANGED gateProg
LoopStep == UNCHANGED << hist, gateProg, engineProg, chunkProg, builderProg, baseHist, pluginProg, uploadProg, mainProg, workerProg >> /\ NoBlobStep
NextLoop ==
  \/ \E h \in Handlers, b \in Batches : PushStart(h, "v1", b) /\ HistNone
  \/ \E h \in Handlers : DbInsert(h) /\ HistNone
  \/ \E h \in Handlers : DbCommit(h) /\ HistNone
  \/ \E h \in Handlers : PushInserted(h) /\ HistNone
  \/ \E h \in Handlers : PushCoalesced(h) /\ HistNone
  \/ \E h \in Handlers : PushCursor(h) /\ HistNone
  \/ \E h \in Handlers : PushReturn(h) /\ HistNone
  \/ \E c \in 0..1, l \in LoopLimits : LoopStart("v1", c, l) /\ LoopStep
  \/ \E p \in Pullers : LoopPull(p, "d2") /\ LoopStep
  \/ \E p \in Pullers : PullSelect(p) /\ HistNone
  \/ \E p \in Pullers : PullCursor(p) /\ HistNone
  \/ \E p \in Pullers : LoopResponse(p) /\ LoopStep

SpecLoop == Init /\ [][NextLoop]_vars

\* pullOnce of one SyncEngine, again and again, on every response
EngineStep == NoServerStep /\ UNCHANGED << loopProg, chunkProg, builderProg, baseHist, pluginProg, uploadProg, mainProg, workerProg >>
NextEngine ==
  \/ \E response \in PullResponses(engine.cursor) :
        engine.cursor + MaxOps <= MaxSeq /\ EnginePull(response) /\ EngineStep
  \/ \E throws \in BOOLEAN : EngineApply(throws) /\ EngineStep
  \/ EngineSetCursor /\ EngineStep
  \/ EngineReturn /\ EngineStep

SpecEngine == Init /\ [][NextEngine]_vars

\* chunkBuffer on every buffer and size, joinChunks on the chunks in every order
ChunkingStep == NoServerStep /\ UNCHANGED << loopProg, engineProg, builderProg, baseHist, pluginProg, uploadProg, mainProg, workerProg >>
NextChunking ==
  \/ \E buffer \in Buffers, chunkSizeBytes \in ChunkSizeArgs :
        ChunkBufferCall(buffer, chunkSizeBytes) /\ ChunkingStep
  \/ \E f \in Orders(Len(chunking.chunks)) : JoinChunksCall(f) /\ ChunkingStep
  \/ ChunkingReturn /\ ChunkingStep

SpecChunking == Init /\ [][NextChunking]_vars

\* any sequence of vault events on one builder
BuilderStep == NoServerStep /\ UNCHANGED << loopProg, engineProg, chunkProg, baseHist, pluginProg, uploadProg, mainProg, workerProg >>
NextBuilder ==
  \E event \in VaultEvents : fromVaultEvent(event) /\ BuilderStep

SpecBuilder == Init /\ [][NextBuilder]_vars

\* pushes to one vault, one at a time, any store call of which may fail, and
\* realtime connections on the vault
HistBase == RecordPushBase /\ UNCHANGED hist /\ NoBlobStep
            /\ UNCHANGED << gateProg, loopProg, engineProg, chunkProg, builderProg, pluginProg, uploadProg, mainProg, workerProg >>
NextFail ==
  \/ \E h \in OneHandler, b \in Batches : PushStart(h, "v1", b) /\ HistBase
  \/ \E h \in OneHandler : DbInsert(h) /\ HistBase
  \/ \E h \in OneHandler : DbCommit(h) /\ HistBase
  \/ \E h \in OneHandler : PushInserted(h) /\ HistBase
  \/ \E h \in OneHandler : PushCoalesced(h) /\ HistBase
  \/ \E h \in OneHandler : PushCursor(h) /\ HistBase
  \/ \E h \in OneHandler : PushReturn(h) /\ HistBase
  \/ \E h \in OneHandler : PushStoreError(h) /\ HistBase
  \/ \E h \in OneHandler : PushFailedReturn(h) /\ HistBase
  \/ \E c \in Conns : RtOpen(c, "v1", 0) /\ HistBase
  \/ \E c \in Conns : RtBacklogSelect(c) /\ HistBase
  \/ \E c \in Conns : RtSubscribe(c) /\ HistBase
  \/ \E c \in Conns : RtClose(c) /\ HistBase

SpecFail == Init /\ [][NextFail]_vars

\* concurrent pushes to one vault, with every cursor
NextCursor ==
  \/ \E h \in Handlers, b \in CursorBatches : PushStart(h, "v1", b) /\ HistNone
  \/ \E h \in Handlers : DbInsert(h) /\ HistNone
  \/ \E h \in Handlers : DbCommit(h) /\ HistNone
  \/ \E h \in Handlers : PushInserted(h) /\ HistNone
  \/ \E h \in Handlers : PushCoalesced(h) /\ HistNone
  \/ \E h \in Handlers : PushCursor(h) /\ HistNone
  \/ \E h \in Handlers : PushReturn(h) /\ HistNone

SpecCursor == Init /\ [][NextCursor]_vars

\* pushes of blob_ref ops to one vault, one at a time, concurrent with the upload
\* and the commit of the blob they name
NextBlobRef ==
  \/ \E h \in OneHandler, b \in RefBatches : PushStart(h, "v1", b) /\ HistNone
  \/ \E h \in OneHandler : DbInsert(h) /\ HistNone
  \/ \E h \in OneHandler : DbCommit(h) /\ HistNone
  \/ \E h \in OneHandler : PushInserted(h) /\ HistNone
  \/ \E h \in OneHandler : PushCoalesced(h) /\ HistNone
  \/ \E h \in OneHandler : PushBlobLookup(h) /\ HistNone
  \/ \E h \in OneHandler : PushCursor(h) /\ HistNone
  \/ \E h \in OneHandler : PushReturn(h) /\ HistNone
  \/ \E r \in OneBlobHandler, h \in Hashes : InitStart(r, h, BlobSize, 1) /\ HistBlobNone
  \/ \E r \in OneBlobHandler : InitInsert(r) /\ HistBlobNone
  \/ \E r \in OneBlobHandler : InitSelect(r) /\ HistBlobNone
  \/ \E r \in OneBlobHandler, h \in Hashes, b \in Bytes :
        PutStart(r, h, "0", sha256Hex(b), 1, Base64Encode(b)) /\ HistBlobNone
  \/ \E r \in OneBlobHandler : PutWrite(r) /\ HistBlobNone
  \/ \E r \in OneBlobHandler : PutUpsert(r) /\ HistBlobNone
  \/ \E r \in OneBlobHandler, h \in Hashes : CommitStart(r, h, h, 1, 1) /\ HistBlobNone
  \/ \E r \in OneBlobHandler : CommitCount(r) /\ HistBlobNone
  \/ \E r \in OneBlobHandler : CommitUpdate(r) /\ HistBlobNone
  \/ \E r \in OneBlobHandler : BlobReturn(r) /\ HistBlobNone

SpecBlobRef == Init /\ [][NextBlobRef]_vars

\* realtime connections of every principal, and of none, to both vaults, with one
\* push handler on the vault that exists
RtPrincipals == GatePrincipals \cup {NoAuth}
NextRtAuth ==
  \/ \E a \in GatePrincipals : VaultCreate(a, "v1") /\ GateOnly
  \/ \E c \in Conns, a \in RtPrincipals, v \in Vaults : RtConnect(c, a, v, 0) /\ HistNone
  \/ \E c \in Conns : RtAuth(c) /\ HistNone
  \/ \E c \in Conns : RtAccess(c) /\ HistNone
  \/ \E c \in Conns : RtBacklogSelect(c) /\ HistNone
  \/ \E c \in Conns : RtSubscribe(c) /\ HistNone
  \/ \E c \in Conns : RtKeepalive(c) /\ HistNone
  \/ \E c \in Conns : RtClose(c) /\ HistNone
  \/ \E h \in OneHandler, b \in GateBatches : PushStart(h, "v1", b) /\ HistNone
  \/ \E h \in OneHandler : DbInsert(h) /\ HistNone
  \/ \E h \in OneHandler : DbCommit(h) /\ HistNone
  \/ \E h \in OneHandler : PushInserted(h) /\ HistNone
  \/ \E h \in OneHandler : PushCoalesced(h) /\ HistNone
  \/ \E h \in OneHandler : PushCursor(h) /\ HistNone
  \/ \E h \in OneHandler : PushReturn(h) /\ HistNone

SpecRtAuth == Init /\ [][NextRtAuth]_vars

\* the plugin's vault events and overlapping flushes, every push of which may
\* fail at any point
PluginStep == UNCHANGED << prog, hist, gateProg, loopProg, engineProg, chunkProg, builderProg, baseHist,
                           uploadProg, mainProg, workerProg >>
              /\ NoBlobStep
PluginPush == UNCHANGED << hist, gateProg, loopProg, engineProg, chunkProg, builderProg, baseHist,
                           uploadProg, mainProg, workerProg >>
              /\ NoBlobStep
NextOutbox ==
  \/ HandleVaultEvent /\ PluginStep
  \/ \E f \in Handlers : FlushStart(f) /\ PluginStep
  \/ \E f \in Handlers : FlushArrive(f, "v1") /\ PluginPush
  \/ \E f \in Handlers : FlushNotSent(f) /\ PluginStep
  \/ \E f \in Handlers : FlushFailed(f) /\ PluginPush
  \/ \E f \in Handlers : FlushAck(f) /\ PluginPush
  \/ \E f \in Handlers : FlushSetCursor(f) /\ PluginStep
  \/ \E h \in Handlers : DbInsert(h) /\ HistNone
  \/ \E h \in Handlers : DbCommit(h) /\ HistNone
  \/ \E h \in Handlers : PushInserted(h) /\ HistNone
  \/ \E h \in Handlers : PushCoalesced(h) /\ HistNone
  \/ \E h \in Handlers : PushCursor(h) /\ HistNone
  \/ \E h \in Handlers : PushStoreError(h) /\ HistNone

SpecOutbox == Init /\ [][NextOutbox]_vars

\* the plugin (device d1) flushes through push handler 1 and pulls, while another
\* device pushes through the other push handlers
OtherHandlers == Handlers \ OneHandler
OtherBatches == { b \in Batches : b.deviceId # "d1" }
NextPluginCursor ==
  \/ HandleVaultEvent /\ PluginStep
  \/ \E f \in OneHandler : FlushStart(f) /\ PluginStep
  \/ \E f \in OneHandler : FlushArrive(f, "v1") /\ PluginPush
  \/ \E f \in OneHandler : FlushAck(f) /\ PluginPush
  \/ \E f \in OneHandler : FlushSetCursor(f) /\ PluginStep
  \/ \E h \in OtherHandlers, b \in OtherBatches : PushStart(h, "v1", b) /\ HistNone
  \/ \E h \in OtherHandlers : PushReturn(h) /\ HistNone
  \/ \E h \in Handlers : DbInsert(h) /\ HistNone
  \/ \E h \in Handlers : DbCommit(h) /\ HistNone
  \/ \E h \in Handlers : PushInserted(h) /\ HistNone
  \/ \E h \in Handlers : PushCoalesced(h) /\ HistNone
  \/ \E h \in Handlers : PushCursor(h) /\ HistNone
  \/ \E p \in Pullers : PluginPullStart(p) /\ PluginPush
  \/ \E p \in Pullers : PullSelect(p) /\ HistNone
  \/ \E p \in Pullers : PullCursor(p) /\ HistNone
  \/ \E p \in Pullers : PluginPullResponse(p) /\ PluginPush
  \/ PluginPullApply /\ PluginStep
  \/ PluginPullSetCursor /\ PluginStep

SpecPluginCursor == Init /\ [][NextPluginCursor]_vars

\* binary file events of the plugin, each request of which may fail
UploadStep == UNCHANGED << prog, hist, gateProg, loopProg, engineProg, chunkProg, builderProg, baseHist,
                           blobProg, blobHist, mainProg, workerProg >>
UploadCall == UNCHANGED << prog, hist, gateProg, loopProg, engineProg, chunkProg, builderProg, baseHist,
                           blobHist, mainProg, workerProg >>
BlobServerStep == UNCHANGED << prog, hist, gateProg, loopProg, engineProg, chunkProg, builderProg,
                               baseHist, blobHist, pluginProg, uploadProg, mainProg, workerProg >>
NextUpload ==
  \/ \E r \in OneBlobHandler : UploadInit(r) /\ UploadCall
  \/ \E r \in OneBlobHandler : UploadInitResponse(r) /\ UploadCall
  \/ UploadSkip /\ UploadStep
  \/ \E r \in OneBlobHandler : UploadPut(r) /\ UploadCall
  \/ \E r \in OneBlobHandler : UploadPutResponse(r) /\ UploadCall
  \/ \E r \in OneBlobHandler : UploadCommit(r) /\ UploadCall
  \/ \E r \in OneBlobHandler : UploadCommitResponse(r) /\ UploadCall
  \/ \E r \in OneBlobHandler : UploadFailed(r) /\ UploadCall
  \/ \E r \in OneBlobHandler : InitInsert(r) /\ BlobServerStep
  \/ \E r \in OneBlobHandler : InitSelect(r) /\ BlobServerStep
  \/ \E r \in OneBlobHandler : PutWrite(r) /\ BlobServerStep
  \/ \E r \in OneBlobHandler : PutUpsert(r) /\ BlobServerStep
  \/ \E r \in OneBlobHandler : CommitCount(r) /\ BlobServerStep
  \/ \E r \in OneBlobHandler : CommitUpdate(r) /\ BlobServerStep
  \/ \E r \in OneBlobHandler : BlobStoreError(r) /\ BlobServerStep

SpecUpload == Init /\ [][NextUpload]_vars

\* the plugin object, its sockets and timers
MainStep == NoServerStep /\ UNCHANGED << loopProg, engineProg, chunkProg, builderProg, baseHist,
                                         pluginProg, uploadProg, workerProg >>
NextMain ==
  \/ \E c \in Calls : ConnectAndStart(c) /\ MainStep
  \/ \E c \in Calls : ConnectNewEngine(c) /\ MainStep
  \/ \E c \in Calls : ConnectNextCall(c) /\ MainStep
  \/ \E c \in Calls : ConnectRejected(c) /\ MainStep
  \/ \E c \in Calls, realtimeEnabled \in BOOLEAN : ConnectFinish(c, realtimeEnabled) /\ MainStep
  \/ Disconnect /\ MainStep
  \/ \E s \in 1..Len(obsync.sockets) : SocketOpen(s) /\ MainStep
  \/ \E s \in 1..Len(obsync.sockets) : SocketError(s) /\ MainStep
  \/ \E s \in 1..Len(obsync.sockets) : SocketClose(s) /\ MainStep
  \/ \E t \in 1..MaxTimers : ReconnectTimerFires(t) /\ MainStep

SpecMain == Init /\ [][NextMain]_vars

\* the headless worker with HEADLESS_PUSH_LOCAL_CHANGES on, and another device
WorkerStep == NoServerStep /\ UNCHANGED << loopProg, engineProg, chunkProg, builderProg, baseHist,
                                           pluginProg, uploadProg, mainProg >>
WorkerCall == UNCHANGED << hist, gateProg, loopProg, engineProg, chunkProg, builderProg, baseHist,
                           pluginProg, uploadProg, mainProg >> /\ NoBlobStep
WorkerServerStep == UNCHANGED << hist, gateProg, loopProg, engineProg, chunkProg, builderProg, baseHist,
                                 pluginProg, uploadProg, mainProg, workerProg >> /\ NoBlobStep
NextWorker ==
  \/ LocalEdit /\ WorkerStep
  \/ \E p \in Pullers : WorkerPull(p) /\ WorkerCall
  \/ \E p \in Pullers : PullSelect(p) /\ WorkerServerStep
  \/ \E p \in Pullers : PullCursor(p) /\ WorkerServerStep
  \/ \E p \in Pullers : WorkerPullResponse(p, TRUE) /\ WorkerCall
  \/ WorkerApply /\ WorkerStep
  \/ WorkerSetCursor /\ WorkerStep
  \/ WorkerSleep /\ WorkerStep
  \/ WorkerNoChanges /\ WorkerStep
  \/ WorkerPlan /\ WorkerStep
  \/ \E h \in Handlers : WorkerPushBatch(h) /\ WorkerCall
  \/ \E h \in Handlers : WorkerBatchResponse(h) /\ WorkerCall
  \/ \E h \in Handlers : WorkerPushFailed(h) /\ WorkerCall
  \/ \E h \in Handlers : WorkerPushAborted(h) /\ WorkerStep
  \/ WorkerPushDone /\ WorkerStep
  \/ \E h \in Handlers, b \in WorkerGoodBatches : OtherPush(h, b) /\ WorkerCall
  \/ \E h \in Handlers : PushReturnToOther(h) /\ WorkerServerStep
  \/ \E h \in Handlers : DbInsert(h) /\ WorkerServerStep
  \/ \E h \in Handlers : DbCommit(h) /\ WorkerServerStep
  \/ \E h \in Handlers : PushInserted(h) /\ WorkerServerStep
  \/ \E h \in Handlers : PushCoalesced(h) /\ WorkerServerStep
  \/ \E h \in Handlers : PushCursor(h) /\ WorkerServerStep
  \/ \E h \in Handlers : PushStoreError(h) /\ WorkerServerStep

SpecWorker == Init /\ [][NextWorker]_vars

\* the headless worker with HEADLESS_PUSH_LOCAL_CHANGES off and a server that
\* stays reachable, while other devices push until they stop
WorkerLoopSteps ==
  \/ \E p \in Pullers : WorkerPull(p) /\ WorkerCall
  \/ \E p \in Pullers : PullSelect(p) /\ WorkerServerStep
  \/ \E p \in Pullers : PullCursor(p) /\ WorkerServerStep
  \/ \E p \in Pullers : WorkerPullResponse(p, FALSE) /\ WorkerCall
  \/ WorkerApply /\ WorkerStep
  \/ WorkerSetCursor /\ WorkerStep
  \/ WorkerSleep /\ WorkerStep
PushHandlerSteps ==
  \/ \E h \in Handlers : DbInsert(h) /\ WorkerServerStep
  \/ \E h \in Handlers : DbCommit(h) /\ WorkerServerStep
  \/ \E h \in Handlers : PushInserted(h) /\ WorkerServerStep
  \/ \E h \in Handlers : PushCoalesced(h) /\ WorkerServerStep
  \/ \E h \in Handlers : PushCursor(h) /\ WorkerServerStep
  \/ \E h \in Handlers : PushReturnToOther(h) /\ WorkerServerStep
NextWorkerLive ==
  \/ \E p \in Pullers : WorkerPull(p) /\ WorkerCall
  \/ \E p \in Pullers : PullSelect(p) /\ WorkerServerStep
  \/ \E p \in Pullers : PullCursor(p) /\ WorkerServerStep
  \/ \E p \in Pullers : WorkerPullResponse(p, FALSE) /\ WorkerCall
  \/ WorkerApply /\ WorkerStep
  \/ WorkerSetCursor /\ WorkerStep
  \/ WorkerSleep /\ WorkerStep
  \/ \E h \in Handlers, b \in WorkerOtherBatches : OtherPush(h, b) /\ WorkerCall
  \/ OtherStop /\ WorkerStep
  \/ \E h \in Handlers : DbInsert(h) /\ WorkerServerStep
  \/ \E h \in Handlers : DbCommit(h) /\ WorkerServerStep
  \/ \E h \in Handlers : PushInserted(h) /\ WorkerServerStep
  \/ \E h \in Handlers : PushCoalesced(h) /\ WorkerServerStep
  \/ \E h \in Handlers : PushCursor(h) /\ WorkerServerStep
  \/ \E h \in Handlers : PushReturnToOther(h) /\ WorkerServerStep

\* the main loop never ends (every sleep returns), and the server answers every
\* request
SpecWorkerLive ==
  Init /\ [][NextWorkerLive]_vars /\ WF_vars(WorkerLoopSteps) /\ WF_vars(PushHandlerSteps)

(***************************************************************************)
(* Properties of the push handler (SpecPush)                               *)
(***************************************************************************)
\* handler h is a replay: a push of the same body to the same vault had been
\* answered before h started
IsReplay(h) == pushHist[h].prevAck # NoAck

\* C1 Idempotent push: a push of a body to a vault that was pushed and answered
\* before leaves the vault's op log as it is in every step it takes, and it
\* answers appliedCount = 0 and an acknowledgedSeq not below the first answer's.
C1_IdempotentPush ==
  [][\A h \in Handlers :
       (IsReplay(h) /\ handler'[h] # handler[h]) =>
          /\ RowsOf(op_log', handler[h].vaultId) = RowsOf(op_log, handler[h].vaultId)
          /\ handler'[h].pc = "done" =>
               /\ handler'[h].appliedCount = 0
               /\ handler'[h].acknowledgedSeq >= pushHist[h].prevAck]_vars

\* a replay has been answered, after a push of another body
C1_Witness ==
  \E h \in Handlers :
     /\ IsReplay(h) /\ handler[h].pc = "done"
     /\ handler[h].acknowledgedSeq > 0
     /\ \E k \in Vaults \X Batches : k[2] # handler[h].body /\ firstAck[k] # NoAck

\* C6 No acknowledged operation is lost: when a push to vault V is answered, a
\* pull of V from 0 holds a row for every idempotencyKey of the batch.
C6_AcknowledgedOpsInLog ==
  \A h \in Handlers :
     handler[h].pc = "done" =>
        LET rows == SelectOpsSince(op_log, handler[h].vaultId, 0, MaxPullLimit)
        IN  \A i \in 1..Len(handler[h].body.ops) :
               \E j \in 1..Len(rows) :
                  rows[j].idempotency_key = handler[h].body.ops[i].idempotencyKey

\* C8 appliedCount: a push that no other push to its vault overlapped answers
\* with appliedCount = the number of ops of the vault above the vault's latest
\* seq at its start; and an op whose key is in the log when its INSERT runs
\* leaves appliedCount as it is.
C8_AppliedCount ==
  /\ [](\A h \in Handlers :
          (handler[h].pc = "done" /\ pushHist[h].alone) =>
             Cardinality({ r \in RowsOf(op_log, handler[h].vaultId) :
                             r.seq > pushHist[h].prevLatest }) = handler[h].appliedCount)
  /\ [][\A h \in Handlers :
          /\ (/\ handler[h].pc = "insert"
              /\ KeyCommitted(CurrentOp(h).idempotencyKey)
              /\ handler'[h].pc # "insert") =>
                (handler'[h].pc = "inserted" /\ handler'[h].ret = 0)
          /\ (handler[h].pc = "inserted" /\ handler[h].ret = 0 /\ handler'[h].pc # "idle") =>
                handler'[h].appliedCount = handler[h].appliedCount]_vars

\* a push answered with appliedCount = 1 for a batch of two ops, one coalesced,
\* on a vault that had an op before
C8_Witness ==
  \E h \in Handlers :
     /\ handler[h].pc = "done" /\ pushHist[h].alone
     /\ handler[h].appliedCount = 1 /\ Len(handler[h].body.ops) = 2
     /\ pushHist[h].prevLatest > 0

(***************************************************************************)
(* Properties of the op log                                                *)
(***************************************************************************)
\* C2 Unique idempotencyKey: no two rows of op_log share an idempotencyKey; and
\* the INSERT of an op whose key is in the log adds no row, the handler then
\* publishes nothing and takes the seq of the key's row as the op's seq.
C2_UniqueKey ==
  /\ [](\A r, q \in op_log : r.idempotency_key = q.idempotency_key => r = q)
  /\ [][\A h \in Handlers :
          /\ (/\ handler[h].pc = "insert"
              /\ KeyCommitted(CurrentOp(h).idempotencyKey)
              /\ handler'[h].pc # "insert") =>
                (op_log' = op_log /\ pending' = pending /\ conn' = conn)
          /\ (handler[h].pc = "inserted" /\ handler[h].ret = 0 /\ handler'[h].pc # "inserted") =>
                /\ op_log' = op_log /\ conn' = conn
                /\ \E r \in op_log :
                     /\ r.idempotency_key = CurrentOp(h).idempotencyKey
                     /\ handler'[h].acknowledgedSeq = Max(handler[h].acknowledgedSeq, r.seq)]_vars

\* the INSERT of an op found its key in the log of another vault, while a
\* subscriber of the handler's vault is live
C2_Witness ==
  \E h \in Handlers :
     /\ handler[h].pc = "inserted" /\ handler[h].ret = 0
     /\ \E r \in op_log : /\ r.idempotency_key = CurrentOp(h).idempotencyKey
                          /\ r.vault_id # handler[h].vaultId
     /\ \E c \in listeners[handler[h].vaultId] : conn[c].readyState = 1

\* C3 Gapless visibility: once a reader has returned an op of V with seq s, no
\* op of V with a seq below s becomes visible.
C3_GaplessVisibility ==
  [][\A r \in op_log' \ op_log : r.seq > observedMax[r.vault_id]]_vars

\* C9 Append-only: a row of op_log stays in op_log, with every field as it is.
C9_AppendOnly == [][\A r \in op_log : r \in op_log']_vars

\* a pull has returned both ops of a vault, a subscriber has its backlog, and a
\* push of a key that is in the log has run its INSERT
C9_Witness ==
  /\ \E p \in Pullers : puller[p].pc = "done" /\ Len(puller[p].ops) = 2
  /\ \E c \in Conns : conn[c].pc = "live" /\ Len(conn[c].sent) > 0
  /\ \E h \in Handlers : handler[h].pc = "inserted" /\ handler[h].ret = 0

(***************************************************************************)
(* Properties of the realtime route (SpecRealtime)                         *)
(***************************************************************************)
\* the seqs a connection was sent: those of the backlog envelope and of the events
RECURSIVE SentSeqs(_)
SentSeqs(msgs) ==
  IF msgs = << >> THEN << >>
  ELSE (IF Head(msgs).type = "backlog"
        THEN [i \in 1..Len(Head(msgs).events) |-> Head(msgs).events[i].seq]
        ELSE << Head(msgs).event.seq >>) \o SentSeqs(Tail(msgs))

EventMsgs(msgs) == SelectSeq(msgs, LAMBDA m : m.type = "event")

StrictlyIncreasing(s) == \A i, j \in 1..Len(s) : i < j => s[i] < s[j]

\* an op is committed and the handler that inserted it has not yet published it
PublishDue(s) == \E h \in Handlers : handler[h].pc = "inserted" /\ handler[h].ret = s

\* C5 Realtime completeness: on an open subscription to V with since = S the
\* seqs of the backlog followed by those of the live events are strictly
\* increasing and hold every committed op of V with seq > S whose publish is
\* not still due, when the backlog is below the cap.
C5_RealtimeComplete ==
  \A c \in Conns :
     (/\ conn[c].pc = "live" /\ conn[c].readyState = 1
      /\ Len(conn[c].backlog) < BacklogLimit) =>
        /\ StrictlyIncreasing(SentSeqs(conn[c].sent))
        /\ \A r \in RowsOf(op_log, conn[c].vaultId) :
              r.seq > conn[c].since =>
                 \/ \E i \in 1..Len(SentSeqs(conn[c].sent)) : SentSeqs(conn[c].sent)[i] = r.seq
                 \/ PublishDue(r.seq)

\* C10 Realtime order: the live events sent on a connection have strictly
\* increasing seq.
C10_RealtimeOrder ==
  \A c \in Conns : StrictlyIncreasing(SentSeqs(EventMsgs(conn[c].sent)))

(***************************************************************************)
(* Properties of the pull handler and the cursors (SpecPull)               *)
(***************************************************************************)
\* C4 Cursor non-regression: the stored cursor of a device and vault never decreases.
C4_CursorNonRegression ==
  [][\A k \in Devices \X Vaults : sync_cursors'[k] >= sync_cursors[k]]_vars

\* the number of ops a pull with query.limit q may return
PullCap(q) == IF q = NoLimit THEN DefaultPullLimit ELSE IF q < MaxPullLimit THEN q ELSE MaxPullLimit

\* C7 Pull result: the ops of a pull are the first min(limit, 1000) committed
\* ops of the vault with seq > since, in strictly increasing seq order, none of
\* another vault, and the watermark is the last seq, or since when there is none.
C7_PullResult ==
  [][\A p \in Pullers :
       (puller[p].pc = "select" /\ puller'[p].pc # "select") =>
          LET ops == puller'[p].ops
              matching == { r \in op_log : r.vault_id = puller[p].vaultId /\ r.seq > puller[p].since }
          IN  /\ Len(ops) = Min(PullCap(puller[p].limit), Cardinality(matching))
              /\ \A i \in 1..Len(ops) :
                    /\ ops[i].vaultId = puller[p].vaultId
                    /\ \E r \in matching : /\ r.seq = ops[i].seq /\ r.op_type = ops[i].opType
                                           /\ r.payload = ops[i].payload
              /\ StrictlyIncreasing([i \in 1..Len(ops) |-> ops[i].seq])
              /\ \A r \in matching :
                    (\A i \in 1..Len(ops) : ops[i].seq # r.seq) =>
                       (\A i \in 1..Len(ops) : ops[i].seq < r.seq)
              /\ puller'[p].watermark =
                    IF Len(ops) = 0 THEN puller[p].since ELSE ops[Len(ops)].seq]_vars

\* a pull with limit 1 and since > 0 has returned one op of a vault that has two
\* ops above since and one op up to since, while the other vault has ops too
C7_Witness ==
  \E p \in Pullers :
     /\ puller[p].pc = "done" /\ puller[p].limit = 1 /\ puller[p].since > 0
     /\ Len(puller[p].ops) = 1
     /\ Cardinality({ r \in RowsOf(op_log, puller[p].vaultId) : r.seq > puller[p].since }) = 2
     /\ \E r \in op_log : r.vault_id # puller[p].vaultId

(***************************************************************************)
(* Properties of a realtime connection (SpecConn)                          *)
(***************************************************************************)
\* the step is the continuation of handler h after the INSERT of a new row
PublishStep(h) == handler[h].pc = "inserted" /\ handler[h].ret # 0 /\ handler'[h] # handler[h]

\* C11 Publish follows commit: every live event sent on a connection of vault V
\* carries the seq, opType and payload of a committed row of V; a connection is
\* sent no seq twice; an open subscriber is sent exactly one event, with the seq
\* of the row, in the step that follows the INSERT of a new row, and no event in
\* any other step, the one for a coalesced op included.
C11_PublishFollowsCommit ==
  /\ [](\A c \in Conns :
          LET ev == EventMsgs(conn[c].sent)
          IN  \A i \in 1..Len(ev) :
                 /\ ev[i].event.vaultId = conn[c].vaultId
                 /\ \E r \in op_log : /\ r.vault_id = conn[c].vaultId
                                      /\ r.seq = ev[i].event.seq
                                      /\ r.op_type = ev[i].event.opType
                                      /\ r.payload = ev[i].event.payload
                 /\ \A j \in 1..Len(ev) : j # i => ev[j].event.seq # ev[i].event.seq)
  /\ [][\A c \in Conns :
          LET due == { h \in Handlers : /\ PublishStep(h)
                                        /\ c \in listeners[handler[h].vaultId]
                                        /\ conn[c].readyState = 1 }
          IN  /\ Len(EventMsgs(conn'[c].sent)) = Len(EventMsgs(conn[c].sent)) + Cardinality(due)
              /\ \A h \in due : conn'[c].sent[Len(conn'[c].sent)].event.seq = handler[h].ret]_vars

\* a subscriber has been sent the two events of a batch, and a replay of the
\* batch to its vault has been answered with appliedCount = 0
C11_Witness ==
  \E c \in Conns, h \in Handlers :
     /\ Len(EventMsgs(conn[c].sent)) = 2
     /\ handler[h].pc = "done" /\ handler[h].appliedCount = 0
     /\ handler[h].vaultId = conn[c].vaultId

\* C12 Slow subscriber: when an event is published to V while a subscriber of V
\* cannot take it (its peer has stopped reading), the subscriber is removed from
\* V's listeners and its connection is no longer open after the publish.
C12_StalledSubscriberDropped ==
  [][\A h \in Handlers :
       PublishStep(h) =>
          \A c \in listeners[handler[h].vaultId] :
             (conn[c].readyState = 1 /\ conn[c].stalled) =>
                (c \notin listeners'[handler[h].vaultId] /\ conn'[c].readyState # 1)]_vars

\* C13 Deregistration on disconnect: a connection whose socket has closed and
\* whose handler has run to its end has no listener on the bus and no keepalive
\* interval.
C13_DeregisteredAfterClose ==
  \A c \in Conns :
     (conn[c].readyState = 3 /\ conn[c].pc = "live") =>
        (c \notin listeners[conn[c].vaultId] /\ ~ conn[c].keepalive)

RowsOfBlob(h) == { k \in ChunkKeys : k[1] = h /\ blob_chunks[k] # NoChunk }
SizeOfRow(k) == IF blob_chunks[k] = NoChunk THEN 0 ELSE blob_chunks[k].size
SizeOfBlobRows(h) == SizeOfRow(<<h, 0>>) + SizeOfRow(<<h, 1>>)
IsCommitted(b) == b # NoBlob /\ b.committed_at # Null

\* C15 Commit gate: the count query of a commit whose expectedChunkCount is above
\* the number of chunk rows, or whose expectedSize is above the sum of their
\* sizes, answers BLOB_INCOMPLETE with that number and that sum and leaves the
\* blob row as it is; otherwise the commit goes on, marks the blob committed and
\* answers committed.
C15_CommitGate ==
  [][\A r \in BlobHandlers :
       LET h == blobReq[r].req.hash
       IN  /\ (blobReq[r].pc = "count" /\ blobReq'[r].pc # "count") =>
                IF \/ blobReq[r].req.expectedChunkCount > Cardinality(RowsOfBlob(h))
                   \/ blobReq[r].req.expectedSize > SizeOfBlobRows(h)
                THEN /\ blobReq'[r].pc = "done"
                     /\ blobReq'[r].res = [code |-> "BLOB_INCOMPLETE",
                                           currentCount |-> Cardinality(RowsOfBlob(h)),
                                           currentSize |-> SizeOfBlobRows(h)]
                     /\ blobs' = blobs
                ELSE blobReq'[r].pc = "update"
           /\ (blobReq[r].pc = "update" /\ blobReq'[r].pc # "update") =>
                /\ blobReq'[r].pc = "done" /\ blobReq'[r].res.code = "ok"
                /\ IsCommitted(blobs'[h])]_vars

\* a commit expecting two chunks was answered BLOB_INCOMPLETE with currentCount 1,
\* and after the upload of the other chunk the same commit was answered committed
C15_Witness ==
  \E r, o \in BlobHandlers :
     /\ blobReq[r].pc = "done" /\ blobReq[r].kind = "commit"
     /\ blobReq[r].res.code = "BLOB_INCOMPLETE" /\ blobReq[r].res.currentCount = 1
     /\ blobReq[r].req.expectedChunkCount = 2
     /\ blobReq[o].pc = "done" /\ blobReq[o].kind = "commit" /\ blobReq[o].res.code = "ok"
     /\ blobReq[o].req = blobReq[r].req
     /\ IsCommitted(blobs[blobReq[o].req.hash])

\* C16 Committed implies complete: a committed blob has a chunk row for every
\* index in [0, chunk_count) of its row.
C16_CommittedComplete ==
  \A h \in Hashes :
     IsCommitted(blobs[h]) =>
        \A i \in 0..(blobs[h].chunk_count - 1) : <<h, i>> \in RowsOfBlob(h)

\* C17 COMMITTED is terminal: the row of a committed blob, committed_at included,
\* is left as it is by every step, and a put-chunk on a committed blob succeeds.
C17_CommittedTerminal ==
  [][/\ \A h \in Hashes : IsCommitted(blobs[h]) => blobs'[h] = blobs[h]
     /\ \A r \in BlobHandlers :
          (/\ blobReq[r].pc = "upsert" /\ blobReq'[r].pc # "upsert"
           /\ IsCommitted(blobs[blobReq[r].req.hash])) => blobReq'[r].res.code = "ok"]_vars

(***************************************************************************)
(* Properties of the chunks (SpecChunk)                                    *)
(***************************************************************************)
\* the step starts a put-chunk whose decoded bytes do not hash to body.chunkHash
MismatchStarts(r) ==
  /\ blobReq[r].pc = "idle" /\ blobReq'[r].kind = "put"
  /\ sha256Hex(Base64Decode(blobReq'[r].req.cipherTextBase64)) # blobReq'[r].req.chunkHash

NothingWritten == blob_chunks' = blob_chunks /\ files' = files /\ blobs' = blobs

\* C18 Integrity gate, as claimed: every put-chunk whose decoded bytes do not
\* hash to the declared chunkHash is answered CHUNK_HASH_MISMATCH and writes
\* neither a chunk row nor a file.
C18_IntegrityGateAnyBody ==
  [][\A r \in BlobHandlers :
       MismatchStarts(r) =>
          /\ blobReq'[r].pc = "done" /\ blobReq'[r].res.code = "CHUNK_HASH_MISMATCH"
          /\ NothingWritten]_vars

\* C18 Integrity gate, amended: a put-chunk whose body carries chunkHash, a
\* non-zero size and cipherTextBase64 and whose decoded bytes do not hash to the
\* declared chunkHash is answered CHUNK_HASH_MISMATCH; a body without one of the
\* fields is answered INVALID_CHUNK_PAYLOAD; either way neither a chunk row nor a
\* file is written.
C18_IntegrityGate ==
  [][\A r \in BlobHandlers :
       MismatchStarts(r) =>
          /\ blobReq'[r].pc = "done"
          /\ blobReq'[r].res.code = IF blobReq'[r].req.size = 0 THEN "INVALID_CHUNK_PAYLOAD"
                                    ELSE "CHUNK_HASH_MISMATCH"
          /\ NothingWritten]_vars

\* a put-chunk was answered CHUNK_HASH_MISMATCH for an index whose row and file
\* hold the chunk of an earlier put-chunk
C18_Witness ==
  \E r \in BlobHandlers :
     /\ blobReq[r].pc = "done" /\ blobReq[r].kind = "put"
     /\ blobReq[r].res.code = "CHUNK_HASH_MISMATCH"
     /\ blob_chunks[KeyOf(blobReq[r])] # NoChunk
     /\ files[KeyOf(blobReq[r])] # Base64Decode(blobReq[r].req.cipherTextBase64)

\* C19 Chunk round-trip: a get-chunk that starts after a put-chunk of its key was
\* answered, with no other put-chunk of the key in flight then or started since,
\* finds the chunk and returns the bytes and the chunkHash of that put-chunk.
C19_ChunkRoundTrip ==
  [][\A g \in BlobHandlers :
       (blobReq[g].kind = "getChunk" /\ getClean[g]) =>
          /\ (blobReq[g].pc = "chunkSelect" /\ blobReq'[g].pc # "chunkSelect") =>
                blobReq'[g].pc = "read"
          /\ (blobReq[g].pc = "read" /\ blobReq'[g].pc # "read") =>
                /\ blobReq'[g].res.code = "ok"
                /\ Base64Decode(blobReq'[g].res.cipherTextBase64) = lastPut[KeyOf(blobReq[g])].bytes
                /\ blobReq'[g].res.chunkHash = lastPut[KeyOf(blobReq[g])].chunkHash]_vars

\* C20 Readable only by commit: get-manifest answers a manifest exactly when the
\* blob row exists and is committed, and BLOB_NOT_FOUND otherwise; get-chunk
\* answers no bytes of a blob that is not committed.
C20_ReadableOnlyCommitted ==
  [][\A r \in BlobHandlers :
       /\ (blobReq[r].pc = "blobSelect" /\ blobReq'[r].pc # "blobSelect") =>
             IF IsCommitted(blobs[blobReq[r].req.hash])
             THEN blobReq'[r].pc = "chunksSelect"
             ELSE blobReq'[r].pc = "done" /\ blobReq'[r].res.code = "BLOB_NOT_FOUND"
       /\ (blobReq[r].pc = "chunksSelect" /\ blobReq'[r].pc # "chunksSelect") =>
             blobReq'[r].res.code = "ok"
       /\ (/\ blobReq[r].kind = "getChunk" /\ blobReq[r].pc # "done" /\ blobReq'[r].pc = "done"
           /\ ~ IsCommitted(blobs[blobReq[r].req.hash])) =>
             blobReq'[r].res.code # "ok"]_vars

(***************************************************************************)
(* Properties of the access checks (SpecGate)                              *)
(***************************************************************************)
\* the scope an operation requires: write for push, init, put-chunk and commit,
\* read for pull, subscribe and the two reads of blobs
ScopeOf(op) == IF op \in {"push", "init", "putChunk", "commit"} THEN "write" ELSE "read"
HasScope(a, op) == "admin" \in a.scopes \/ ScopeOf(op) \in a.scopes
Owns(a, v) == vaults[v] = a.userId
\* the route of a blob handler
OpOfKind(kind) ==
  IF kind = "put" THEN "putChunk" ELSE IF kind = "manifest" THEN "getManifest" ELSE kind

\* the step starts the work of a handler of operation op on vault v: the step
\* after which the route reads or writes the vault's data
StartsWork(op, v) ==
  \/ op = "push" /\ \E h \in Handlers :
        handler[h].pc = "idle" /\ handler'[h].pc # "idle" /\ handler'[h].vaultId = v
  \/ op = "pull" /\ \E p \in Pullers :
        puller[p].pc = "idle" /\ puller'[p].pc # "idle" /\ puller'[p].vaultId = v
  \/ op = "realtime" /\ \E c \in Conns :
        conn[c].pc = "new" /\ conn'[c].pc # "new" /\ conn'[c].vaultId = v

\* the same for a blob route, whose handler keeps the vault id in no local
StartsBlobWork(op) ==
  \E r \in BlobHandlers :
     blobReq[r].pc = "idle" /\ blobReq'[r].pc # "idle" /\ OpOfKind(blobReq'[r].kind) = op

\* C21 Access gate: a request of a principal without admin and without the scope
\* of the operation is answered FORBIDDEN, a request of a principal with the
\* scope that does not own the vault (no such vault, or another owner) is
\* answered VAULT_NOT_FOUND; the answer carries the code only and the step
\* changes no table, handler or subscription. The work of a handler on a vault
\* starts only for a request whose principal has the scope and owns the vault.
C21_AccessGate ==
  [][/\ \A g \in Gates :
          /\ (gate[g].pc = "idle" /\ gate'[g].pc # "idle" /\ ~ HasScope(gate'[g].auth, gate'[g].op)) =>
                /\ gate'[g].pc = "done" /\ gate'[g].res = [code |-> "FORBIDDEN"]
                /\ UNCHANGED << prog, blobProg, vaults >>
          /\ (gate[g].pc = "access" /\ gate'[g].pc # "access" /\ ~ Owns(gate[g].auth, gate[g].vaultId)) =>
                /\ gate'[g].pc = "done" /\ gate'[g].res = [code |-> "VAULT_NOT_FOUND"]
                /\ UNCHANGED << prog, blobProg, vaults >>
          /\ (gate[g].pc = "done" /\ gate'[g].pc # "done") => UNCHANGED << prog, blobProg, vaults >>
     /\ \A op \in Operations, v \in Vaults :
          StartsWork(op, v) =>
             \E g \in Gates : /\ gate[g].op = op /\ gate[g].vaultId = v
                               /\ HasScope(gate[g].auth, op) /\ Owns(gate[g].auth, v)
     /\ \A op \in Operations :
          StartsBlobWork(op) =>
             \E g \in Gates : /\ gate[g].op = op
                               /\ HasScope(gate[g].auth, op) /\ Owns(gate[g].auth, gate[g].vaultId)]_vars

\* a pull of a vault that holds ops, by a principal with the scope who is not the
\* vault's owner, was answered VAULT_NOT_FOUND
C21_Witness ==
  \E g \in Gates :
     /\ gate[g].pc = "done" /\ gate[g].op = "pull" /\ gate[g].res.code = "VAULT_NOT_FOUND"
     /\ vaults[gate[g].vaultId] \notin {NoVault, gate[g].auth.userId}
     /\ RowsOf(op_log, gate[g].vaultId) # {}

(***************************************************************************)
(* Properties of the vaults (SpecPush)                                     *)
(***************************************************************************)
\* C22 Vault isolation: what the owner of a vault observes does not depend on
\* the requests made on another vault. With no request on another vault, the
\* first push of a batch to a vault, overlapped by no other push to that vault,
\* applies every op of the batch and leaves each of them in the vault's log; so
\* it does whatever was pushed to the other vaults.
C22_VaultIsolation ==
  \A h \in Handlers :
     (handler[h].pc = "done" /\ ~ IsReplay(h) /\ pushHist[h].alone) =>
        /\ handler[h].appliedCount = Len(handler[h].body.ops)
        /\ \A i \in 1..Len(handler[h].body.ops) :
              \E r \in RowsOf(op_log, handler[h].vaultId) :
                 r.idempotency_key = handler[h].body.ops[i].idempotencyKey

(***************************************************************************)
(* Properties of the pull loop (SpecLoop)                                  *)
(***************************************************************************)
\* the pushes have stopped: no push handler is at work, and the log is the log the
\* loop's last pull was sent against
PushesStopped == (\A h \in Handlers : handler[h].pc = "idle") /\ op_log = loopLog

\* C23 Pull loop catch-up: when the loop has ended on an empty response and the
\* pushes had stopped before its last pull, the loop has applied every op of the
\* vault with a seq above its start cursor, each once, in ascending seq order.
C23_PullLoopCatchUp ==
  (loop.pc = "caughtUp" /\ PushesStopped) =>
     loop.applied = SeqsOf(OrderBySeq({ r \in RowsOf(op_log, loop.vaultId) : r.seq > loop.start }))

(***************************************************************************)
(* Properties of SyncEngine.pullOnce (SpecEngine)                          *)
(***************************************************************************)
\* the callback of an opType, and the payload fields it is invoked with
MatchingCallback(opType) ==
  CASE opType = "md_update" -> "onRemoteMarkdown"
    [] opType = "file_create" -> "onRemoteFileCreate"
    [] opType = "file_rename" -> "onRemoteFileRename"
    [] opType = "file_delete" -> "onRemoteFileDelete"
    [] opType = "blob_ref" -> "onRemoteBinaryFile"
    [] OTHER -> "none"
FieldsFor(opType) ==
  CASE opType = "md_update" -> {"path", "yUpdateBase64"}
    [] opType = "file_create" -> {"path"}
    [] opType = "file_rename" -> {"oldPath", "path"}
    [] opType = "file_delete" -> {"path"}
    [] opType = "blob_ref" -> {"path", "blobHash", "ivBase64", "authTagBase64"}
    [] OTHER -> {}
\* the step handles the op the loop of pullOnce is at
AppliesOp == engine.pc = "apply" /\ engine.idx <= Len(engine.response.ops) /\ engine' # engine
OpAt == engine.response.ops[engine.idx]
Invoked(callback) == engine'.calls = Append(engine.calls, [callback |-> callback, seq |-> OpAt.seq])

\* the ops are handled in response order and the cursor is stored after the last
\* one only: a step that handles an op handles the op at the index, leaves the
\* cursor, and moves to the next index unless the callback throws, which ends
\* pullOnce; the cursor is set to the watermark when the index is past the last
\* op; a pullOnce that failed leaves the cursor it started from.
InOrderThenCursor ==
  /\ AppliesOp =>
        /\ engine'.cursor = engine.cursor /\ engine'.response = engine.response
        /\ \/ engine'.pc = "apply" /\ engine'.idx = engine.idx + 1
           \/ engine'.pc = "failed" /\ engine'.idx = engine.idx /\ engine'.calls # engine.calls
  /\ (engine.pc = "apply" /\ engine'.pc = "done") =>
        /\ engine.idx = Len(engine.response.ops) + 1
        /\ engine'.cursor = engine.response.watermark /\ engine'.calls = engine.calls
  /\ engine'.cursor # engine.cursor => (engine.pc = "apply" /\ engine'.pc = "done")
  /\ engine'.pc = "failed" => engine'.cursor = engine.since

C25_ChunkingRoundTrip ==
  /\ chunking.pc = "thrown" => chunking.chunkSizeBytes <= 0
  /\ chunking.pc \in {"chunked", "joined"} =>
        /\ chunking.chunkSizeBytes > 0
        /\ \A i \in 1..Len(chunking.chunks) :
              /\ chunking.chunks[i].index = i - 1
              /\ Len(chunking.chunks[i].data) \in 1..chunking.chunkSizeBytes
        /\ Len(chunking.buffer) = 0 => Len(chunking.chunks) = 0
  /\ chunking.pc = "joined" => chunking.joined = chunking.buffer

\* a buffer of three bytes, not all the same, was split into chunks of at most
\* two bytes and rejoined from the chunks passed last first
C25_Witness ==
  /\ chunking.pc = "joined" /\ chunking.joined = chunking.buffer
  /\ Len(chunking.buffer) = 3 /\ chunking.buffer[1] # chunking.buffer[3]
  /\ chunking.chunkSizeBytes = 2 /\ Len(chunking.chunks) = 2
  /\ chunking.given[1].index = 1

(***************************************************************************)
(* Properties of the SyncOpBuilder (SpecBuilder)                           *)
(***************************************************************************)
\* C26 Logical clocks of a SyncOpBuilder: the n-th op returned by fromVaultEvent
\* has logicalClock = n, whatever the vault events were.
C26_MonotonicClocks ==
  \A n \in 1..Len(builder.returned) : builder.returned[n].logicalClock = n

\* three ops of different types were returned, the third with clock 3
C26_Witness ==
  /\ Len(builder.returned) = 3
  /\ builder.returned[3].logicalClock = 3
  /\ builder.returned[1].opType # builder.returned[2].opType
  /\ builder.returned[2].opType # builder.returned[3].opType

(***************************************************************************)
(* Properties of the chunk store (SpecChunk)                               *)
(***************************************************************************)
\* C27 Stored chunk hash matches stored bytes: for every chunk row, the file at the
\* row's storage_key exists and its bytes hash to the row's chunk_hash.
C27_StoredHashMatchesBytes ==
  \A k \in ChunkKeys :
     blob_chunks[k] # NoChunk =>
        /\ files[blob_chunks[k].storage_key] # NoFile
        /\ sha256Hex(files[blob_chunks[k].storage_key]) = blob_chunks[k].chunk_hash

(***************************************************************************)
(* Properties of a failing push (SpecFail)                                 *)
(***************************************************************************)
\* the rows of the log that carry an op of the batch of handler h and were not
\* there when h started
RowsOfRequest(h) ==
  { r \in op_log \ pushBase[h].op_log :
      \E i \in 1..Len(handler[h].body.ops) :
         r.idempotency_key = handler[h].body.ops[i].idempotencyKey }

\* C28 A push request is atomic: when a push has failed with INTERNAL_ERROR, no op
\* of its batch has been added to the log, no event of such an op has been sent to
\* a subscriber, and the cursor of its device is the one the request found.
C28_PushAtomic ==
  \A h \in OneHandler :
     handler[h].pc = "failed" =>
        /\ RowsOfRequest(h) = {}
        /\ \A c \in Conns : \A i \in 1..Len(conn[c].sent) :
              conn[c].sent[i].type = "event" =>
                 \A r \in RowsOfRequest(h) : conn[c].sent[i].event.seq # r.seq
        /\ sync_cursors[<<handler[h].body.deviceId, handler[h].vaultId>>] = pushBase[h].cursor

(***************************************************************************)
(* Properties of the acknowledged seq (SpecCursor)                         *)
(***************************************************************************)
\* the seqs of the rows that carry the ops of a batch
SeqsOfBatch(b) ==
  { r.seq : r \in { r \in op_log : \E i \in 1..Len(b.ops) : r.idempotency_key = b.ops[i].idempotencyKey } }

\* C29 acknowledgedSeq of a successful push: the greatest of the seqs of the rows
\* of the ops of the batch, whatever the cursor of the request.
C29_AckIsMaxAssigned ==
  \A h \in Handlers :
     handler[h].pc = "done" =>
        /\ SeqsOfBatch(handler[h].body) # {}
        /\ handler[h].acknowledgedSeq \in SeqsOfBatch(handler[h].body)
        /\ \A q \in SeqsOfBatch(handler[h].body) : q <= handler[h].acknowledgedSeq

(***************************************************************************)
(* Properties of the blob_ref diagnostics (SpecBlobRef)                    *)
(***************************************************************************)
\* the blob a blob_ref op names has a row and is committed; a payload without
\* blobHash names no blob
NamedBlobCommitted(op) ==
  /\ "blobHash" \in DOMAIN op.payload
  /\ op.payload.blobHash \in Hashes
  /\ IsCommitted(blobs[op.payload.blobHash])

\* the entry of missingChunks for a blob_ref op
EntryFor(op) ==
  [blobHash |-> IF "blobHash" \in DOMAIN op.payload THEN op.payload.blobHash ELSE "",
   index |-> IF "index" \in DOMAIN op.payload THEN op.payload.index ELSE 0]

\* handler h ends the iteration of its current op in this step
EndsIteration(h) ==
  /\ handler[h].pc \in {"inserted", "blobLookup"}
  /\ handler'[h].idx = handler[h].idx + 1

\* C30 Missing-blob diagnostics: when the handler is done with a blob_ref op, new or
\* coalesced, it has added the entry {blobHash, index} of the op to missingChunks
\* exactly when the blob the op names has no row or is not committed at that
\* time, and the op is in the log.
C30_MissingBlobDiagnostics ==
  [][\A h \in OneHandler :
       (EndsIteration(h) /\ CurrentOp(h).opType = "blob_ref") =>
          /\ handler'[h].missingChunks =
                IF NamedBlobCommitted(CurrentOp(h))
                THEN handler[h].missingChunks
                ELSE Append(handler[h].missingChunks, EntryFor(CurrentOp(h)))
          /\ \E r \in op_log' : r.idempotency_key = CurrentOp(h).idempotencyKey]_vars

(***************************************************************************)
(* Properties of blob init (SpecCommit)                                    *)
(***************************************************************************)
\* init handler r gets the result of its SELECT on blob_chunks in this step
InitAnswers(r) == blobReq[r].pc = "initSelect" /\ blobReq'[r].pc = "done"

\* seq holds, in ascending order, the indices below chunkCount that have no chunk
\* row of blob h
MissingOf(indexSeq, h, chunkCount) ==
  /\ \A i \in 1..(Len(indexSeq) - 1) : indexSeq[i] < indexSeq[i + 1]
  /\ { indexSeq[i] : i \in 1..Len(indexSeq) } =
        { i \in 0..(chunkCount - 1) : i \notin Indices \/ blob_chunks[<<h, i>>] = NoChunk }

\* an init of a hash that has a row leaves the row as it is
InitKeepsManifest ==
  \A r \in BlobHandlers :
     (/\ blobReq[r].pc = "initInsert" /\ blobReq'[r].pc = "initSelect"
      /\ blobs[blobReq[r].req.hash] # NoBlob) => blobs' = blobs

\* C31 (as stated) Blob init: missingIndices holds, in ascending order, the indices
\* below the chunk_count of the stored manifest that have no chunk row, and a
\* repeated init leaves the stored manifest unchanged.
C31_InitMissingOfManifest ==
  [][/\ \A r \in BlobHandlers :
          InitAnswers(r) =>
             MissingOf(blobReq'[r].res.missingIndices, blobReq[r].req.hash,
                       blobs[blobReq[r].req.hash].chunk_count)
     /\ InitKeepsManifest]_vars

\* C31 (amended) Blob init: missingIndices holds, in ascending order, the indices
\* below the chunkCount of the request that have no chunk row, and a repeated
\* init leaves the stored manifest unchanged.
C31_InitMissingOfRequest ==
  [][/\ \A r \in BlobHandlers :
          InitAnswers(r) =>
             MissingOf(blobReq'[r].res.missingIndices, blobReq[r].req.hash,
                       blobReq[r].req.chunkCount)
     /\ InitKeepsManifest]_vars

\* a repeated init, with another chunkCount than the stored one, was answered with
\* the one index that has no chunk row while the other has one
C31_Witness ==
  \E r \in BlobHandlers :
     /\ blobReq[r].kind = "init" /\ blobReq[r].pc = "done"
     /\ blobReq[r].req.chunkCount = 2
     /\ blobs[blobReq[r].req.hash].chunk_count = 1
     /\ blob_chunks[<<blobReq[r].req.hash, 1>>] # NoChunk
     /\ blob_chunks[<<blobReq[r].req.hash, 0>>] = NoChunk
     /\ blobReq[r].res.missingIndices = << 0 >>

(***************************************************************************)
(* Properties of the realtime access checks (SpecRtAuth)                   *)
(***************************************************************************)
\* connection c was refused with code in this step: the one envelope it was sent
\* is the error (none when the peer had closed the socket before), the socket is
\* not open, there is no backlog, no listener and no keepalive timer
Refused(c, code) ==
  /\ conn'[c].pc = "rejected"
  /\ conn'[c].sent = IF conn[c].readyState = 1 THEN << [type |-> "error", code |-> code] >> ELSE << >>
  /\ conn'[c].readyState # 1
  /\ conn'[c].backlog = << >>
  /\ ~ conn'[c].keepalive
  /\ \A v \in Vaults : c \notin listeners'[v]

\* C32 Realtime authentication or access failure: a connection without a
\* principal is sent one UNAUTHORIZED envelope, one without the read scope one
\* FORBIDDEN envelope, one whose principal does not own the vault one
\* VAULT_NOT_FOUND envelope, and the socket is closed; nothing else is ever sent
\* on it, no listener is registered and no keepalive timer is started.
C32_RealtimeRefusal ==
  [][\A c \in Conns :
       /\ (conn[c].pc = "auth" /\ conn'[c].pc # "auth" /\ conn[c].auth = NoAuth) =>
             Refused(c, "UNAUTHORIZED")
       /\ (/\ conn[c].pc = "auth" /\ conn'[c].pc # "auth" /\ conn[c].auth # NoAuth
           /\ ~ HasScope(conn[c].auth, "realtime")) => Refused(c, "FORBIDDEN")
       /\ (/\ conn[c].pc = "access" /\ conn'[c].pc # "access"
           /\ ~ Owns(conn[c].auth, conn[c].vaultId)) => Refused(c, "VAULT_NOT_FOUND")
       /\ conn[c].pc = "rejected" =>
             /\ conn'[c] = conn[c]
             /\ \A v \in Vaults : c \notin listeners'[v]]_vars

\* a connection of a principal with the read scope to a vault of another owner
\* was refused with the one envelope VAULT_NOT_FOUND, and an op was committed to
\* that vault afterwards
C32_Witness ==
  \E c \in Conns :
     /\ conn[c].pc = "rejected"
     /\ conn[c].sent = << [type |-> "error", code |-> "VAULT_NOT_FOUND"] >>
     /\ conn[c].readyState # 1
     /\ vaults[conn[c].vaultId] \notin {NoVault, conn[c].auth.userId}
     /\ RowsOf(op_log, conn[c].vaultId) # {}

(***************************************************************************)
(* Properties of the plugin's outbox (SpecOutbox)                          *)
(***************************************************************************)
InSeq(op, ops) == \E i \in 1..Len(ops) : ops[i] = op
\* the ops handleVaultEvent has enqueued so far
Enqueued == { PluginOps[i] : i \in 1..plugin.built }
RowsOfKey(k) == { r \in op_log : r.idempotency_key = k }

\* C33 Plugin outbox delivery: an op leaves the outbox only in the step in which a
\* push that contained it is answered with success; the ops of every request are
\* the enqueued ops with their idempotencyKey; the log never holds two rows of an
\* enqueued op, and holds one once the op has left the outbox.
C33_OutboxDelivery ==
  /\ [][\A i \in 1..Len(PluginOps) :
          (InSeq(PluginOps[i], plugin.outbox) /\ ~ InSeq(PluginOps[i], plugin'.outbox)) =>
             \E f \in Handlers : /\ flush[f].pc = "await" /\ handler[f].pc = "done"
                                  /\ flush'[f].pc = "setCursor"
                                  /\ InSeq(PluginOps[i], handler[f].body.ops)]_vars
  /\ [](\A h \in Handlers : \A i \in 1..Len(handler[h].body.ops) :
          handler[h].pc # "idle" => handler[h].body.ops[i] \in Enqueued)
  /\ [](\A op \in Enqueued :
          /\ Cardinality(RowsOfKey(op.idempotencyKey)) <= 1
          /\ ~ InSeq(op, plugin.outbox) => Cardinality(RowsOfKey(op.idempotencyKey)) = 1)

\* both ops have left the outbox and each has its one row, and an overlapping
\* flush that sent both again is answered with every op coalesced
C33_Witness ==
  /\ plugin.built = 2 /\ plugin.outbox = << >>
  /\ \A i \in 1..2 : Cardinality(RowsOfKey(PluginOps[i].idempotencyKey)) = 1
  /\ nextSeq > 3
  /\ \E f \in Handlers : /\ flush[f].pc = "await" /\ handler[f].pc = "done"
                         /\ Len(handler[f].body.ops) = 2 /\ handler[f].appliedCount = 0

(***************************************************************************)
(* Properties of the plugin's cursor (SpecPluginCursor)                    *)
(***************************************************************************)
AppliedSeqs == { plugin.applied[i] : i \in 1..Len(plugin.applied) }

\* C34 The plugin's stored cursor is never past an op it has not applied: every
\* op of the vault that another device authored and whose seq is at most the
\* stored cursor has been applied locally.
C34_CursorBehindApplied ==
  \A r \in RowsOf(op_log, "v1") :
    (r.author_device_id # "d1" /\ r.seq <= plugin.cursor) => r.seq \in AppliedSeqs

(***************************************************************************)
(* Properties of the plugin's blob upload (SpecUpload)                     *)
(***************************************************************************)
\* the chunk indices uploaded so far for the current event
UploadedIndices == { NumberOf(str) : str \in SeqToSet(upload.calls) \cap IndexParams }
IsCallOrder(calls) ==
  /\ Len(calls) >= 2
  /\ calls[1] = "init" /\ calls[Len(calls)] = "commit"
  /\ \A i \in 2..(Len(calls) - 1) : calls[i] \in IndexParams

\* C35 The outbox changes for a binary event only in the step in which commitBlob
\* resolved with success, after init, the uploads and the commit in this order,
\* and then by the blob_ref op being appended; a failed init, upload or commit
\* adds nothing; every blob_ref op in the outbox names a committed blob.
C35_BlobRefAfterCommit ==
  /\ [][plugin'.outbox # plugin.outbox =>
          /\ upload.pc = "commit"
          /\ \E r \in OneBlobHandler :
                /\ blobReq[r].pc = "done" /\ blobReq[r].kind = "commit"
                /\ blobReq[r].res.code = "ok"
          /\ IsCallOrder(upload'.calls)
          /\ plugin'.outbox = Append(plugin.outbox, BlobRefOp(upload.events))]_vars
  /\ [](\A i \in 1..Len(plugin.outbox) :
          plugin.outbox[i].opType = "blob_ref" =>
             /\ blobs[plugin.outbox[i].payload.blobHash] # NoBlob
             /\ blobs[plugin.outbox[i].payload.blobHash].committed_at # Null)

\* the first event failed and enqueued nothing, the second one enqueued its op
C35_Witness ==
  /\ upload.events = 2 /\ upload.pc = "idle"
  /\ Len(plugin.outbox) = 1 /\ plugin.outbox[1] = BlobRefOp(2)

\* C36 Resumable upload: when the upload loop has finished, the chunk indices it
\* uploaded are exactly the missingIndices that init returned, the empty set
\* included.
C36_UploadsExactlyMissing ==
  [][(upload.pc = "chunks" /\ upload'.pc = "commit") => UploadedIndices = upload.missing]_vars

(***************************************************************************)
(* Properties of the plugin's timers and sockets (SpecMain)                *)
(***************************************************************************)
\* at most one reconnect timer is pending
OneReconnectTimer == Cardinality(obsync.timeouts) <= 1
\* while no connectAndStart was called since the last disconnect(), no timer is pending
NoTimerAfterDisconnect == obsync.disconnected => (obsync.timeouts = {} /\ obsync.intervals = {})
\* the close or error event of a socket opened before a disconnect() call sets no
\* reconnect timer
StaleSocketEvent ==
  (/\ obsync'.event.type \in {"close", "error"}
   /\ obsync.sockets[obsync'.event.socket].epoch < obsync.disconnects)
    => obsync'.timeouts \subseteq obsync.timeouts

\* C37 Reconnect discipline: at most one reconnect timer is pending; after
\* disconnect() no reconnect timer and no periodic pull timer is pending; and the
\* close or error event of a socket opened before disconnect() schedules no
\* reconnect, neither before nor after a later connectAndStart.
C37_ReconnectDiscipline ==
  /\ []OneReconnectTimer
  /\ []NoTimerAfterDisconnect
  /\ [][StaleSocketEvent]_vars

(***************************************************************************)
(* Properties of the headless worker (SpecWorker)                          *)
(***************************************************************************)
\* C38 The headless worker's cursor is never past an op it has not applied to the
\* mirror: every op of the vault that another device authored and whose seq is
\* at most state.cursor has been applied.
C38_WorkerCursorBehindApplied ==
  \A r \in RowsOf(op_log, "v1") :
    (r.author_device_id # "d1" /\ r.seq <= worker.cursor) => r.seq \in worker.applied

\* the rows of the log that record the worker's edit of file e
RowsOfEdit(e) ==
  { r \in RowsOf(op_log, "v1") : r.author_device_id = "d1" /\ r.payload.path = NotePath(e) }

\* C40 Headless push retry is idempotent: each local file change is recorded at
\* most once in the server log, also when a push failed and the loop retried.
C40_RetryRecordsOnce == \A e \in 1..worker.edits : Cardinality(RowsOfEdit(e)) <= 1

(***************************************************************************)
(* Properties of the headless worker's catch-up (SpecWorkerLive)           *)
(***************************************************************************)
\* the other devices have stopped and no push is with the server
OtherPushesStopped == worker.stopped /\ \A h \in Handlers : handler[h].pc = "idle"
\* the last pull was empty and state.cursor is the latest seq of the vault
WorkerCaughtUp == worker.emptyPull /\ worker.cursor = LatestSeq(op_log, "v1")

\* C39 Headless catch-up: once the pushes to the vault have stopped, the worker
\* eventually reaches an empty pull with its cursor at the vault's latest seq,
\* whatever the log holds, ops it cannot apply included.
C39_CatchUp == OtherPushesStopped ~> WorkerCaughtUp

====
